---- MODULE Spec2Model ----
(***************************************************************************)
(* Model of the bookmark pipeline of bookmark_cli: the batch classifier    *)
(* (categorizer.py, llm_client.py, gemini_client.py), the folder balancer  *)
(* (categorizer.py) and the metadata fetcher (fetcher.py).                 *)
(*                                                                         *)
(* Python dicts are modelled as TLA+ functions from key strings to values, *)
(* so that a missing key is a key outside DOMAIN, and dict.get(k, d) is    *)
(* Get(d, k, default).  Confidences are counted in tenths (0.4 is 4).      *)
(***************************************************************************)
EXTENDS Integers, Sequences, FiniteSets, TLC

VARIABLES
    stage,              \* which component a behaviour exercises
    pc,                 \* position of the running function
    input,              \* the collection as the caller passed it in
    entries,            \* the caller's entry objects (a sequence of dicts)
    max_folder_size,    \* build_folders parameter
    min_confidence,     \* build_folders parameter (tenths)
    organized,          \* build_folders: organized_entries after splitting
    batch_size,         \* categorize_bookmarks parameter
    batches,            \* categorize_bookmarks: the payload batches
    batch_idx,          \* categorize_bookmarks: index of the next batch (from 0)
    categorized_entries,\* categorize_bookmarks: the list being built
    response,           \* the provider's reply to the batch submitted last
    history,            \* what the provider did for each batch submitted so far
    concurrency_limit,  \* MetadataFetcher.concurrency_limit
    semaphore,          \* MetadataFetcher.semaphore: its counter and its waiters
    task,               \* fetch_metadata: where each entry's fetch_single task is
    attempts,           \* the number of calls of fetch_single made for each entry
    completed,          \* the finished tasks asyncio.as_completed has not yielded yet
    results,            \* fetch_metadata: the results list
    progress,           \* fetch_metadata: the progress bar's count
    bookmark_url,       \* normalizer: the url string being normalized (a token sequence)
    normalized,         \* normalizer: the values normalize_url has returned for it, in order
    deduped,            \* deduplicate_entries: the kept list
    removed,            \* deduplicate_entries: the (removed, kept) pairs
    driver_pc,          \* cli categorize: position of the command
    api_key,            \* cli categorize: settings.gemini_api_key or settings.llm_api_key
    llm_provider,       \* cli categorize: settings.llm_provider
    shutdown_requested, \* cli categorize: the flag the signal handler sets
    at_shutdown,        \* categorized_entries as it was when shutdown was first requested
    progress_file,      \* bookmarks_categorized.progress.json: its content, or None
    output_file,        \* bookmarks_categorized.json: its content, or None
    exit_code,          \* cli categorize: the command's exit code, or None
    chrome_bookmarks,   \* export_to_chrome_format: the folder nodes of the bookmark bar
    html_parts,         \* export_to_chrome_html: the folder and bookmark lines
    result              \* the list the running function returns

foldVars == <<max_folder_size, min_confidence, organized>>
catVars == <<batch_size, batches, batch_idx, categorized_entries, response, history>>
fetchVars == <<concurrency_limit, semaphore, task, attempts, completed, results, progress>>
cleanVars == <<bookmark_url, normalized, deduped, removed>>
driverVars == <<driver_pc, api_key, llm_provider, shutdown_requested, at_shutdown,
                progress_file, output_file, exit_code>>
exportVars == <<chrome_bookmarks, html_parts>>
vars == <<stage, pc, input, entries, foldVars, catVars, fetchVars, cleanVars,
          driverVars, exportVars, result>>

-----------------------------------------------------------------------------
(* Bounds of the model *)

MaxEntries == 3
MaxFolderSize == 2
MaxBatchSize == 2
MaxConcurrency == 2

\* Settings.min_confidence = 0.4, in tenths
MinConfidence == 4

-----------------------------------------------------------------------------
(* Python helpers *)

\* dict.get(k, default)
Get(d, k, default) == IF k \in DOMAIN d THEN d[k] ELSE default

\* {**d, k: v}
Put(d, k, v) == [x \in DOMAIN d \cup {k} |-> IF x = k THEN v ELSE d[x]]

\* The distinct values of a sequence, in order of first occurrence (the key
\* order of a dict filled by iterating the sequence).
RECURSIVE KeysInOrder(_)
KeysInOrder(ks) ==
    IF ks = <<>> THEN <<>>
    ELSE LET rest == KeysInOrder(SubSeq(ks, 1, Len(ks) - 1))
             k == ks[Len(ks)]
         IN IF \E i \in 1..Len(rest) : rest[i] = k THEN rest ELSE Append(rest, k)

\* The concatenation of a sequence of sequences
RECURSIVE Flatten(_)
Flatten(ss) == IF ss = <<>> THEN <<>> ELSE Head(ss) \o Flatten(Tail(ss))

\* s[i:i+n] for i = 0, n, 2n, ...
RECURSIVE Chunks(_, _)
Chunks(s, n) ==
    IF s = <<>> THEN <<>>
    ELSE IF Len(s) <= n THEN <<s>>
    ELSE <<SubSeq(s, 1, n)>> \o Chunks(SubSeq(s, n + 1, Len(s)), n)

\* urllib.parse.urlparse(url).netloc, on the URLs of the model
Netloc(url) ==
    CASE url = "https://a.com/p" -> "a.com"
      [] url = "https://b.com/q" -> "b.com"
      [] OTHER -> ""

-----------------------------------------------------------------------------
(* Folder balancer: categorizer.py build_folders, _split_large_group *)

\* The key an item is grouped under in domain_groups
DomainKey(item) ==
    LET domain == Get(item, "domain", "unknown")
        url == Get(item, "url", "")
    IN IF (domain = "" \/ domain = "unknown") /\ url # ""
       THEN Netloc(url)
       ELSE domain

\* The key an item is grouped under in tag_groups
PrimaryTag(item) ==
    LET tags == Get(item, "tags", <<>>)
    IN IF tags # <<>> THEN tags[1] ELSE "misc"

\* for tag, tag_items in tag_groups.items(): the subgroups of one tag group
TagSubgroups(tag_items, max_size) ==
    IF Len(tag_items) <= max_size THEN <<tag_items>>
    ELSE Chunks(tag_items, max_size)

\* for domain, domain_items in domain_groups.items(): the subgroups of one domain
DomainSubgroups(domain_items, max_size) ==
    IF Len(domain_items) <= max_size THEN <<domain_items>>
    ELSE LET tagKeys == KeysInOrder([i \in 1..Len(domain_items) |-> PrimaryTag(domain_items[i])])
         IN Flatten([k \in 1..Len(tagKeys) |->
                TagSubgroups(SelectSeq(domain_items,
                                 LAMBDA it : PrimaryTag(it) = tagKeys[k]),
                             max_size)])

\* _split_large_group(items, max_size): a sequence of subgroups
SplitLargeGroup(items, max_size) ==
    LET domainKeys == KeysInOrder([i \in 1..Len(items) |-> DomainKey(items[i])])
    IN Flatten([k \in 1..Len(domainKeys) |->
           DomainSubgroups(SelectSeq(items,
                               LAMBDA it : DomainKey(it) = domainKeys[k]),
                           max_size)])

\* SplitName numbering the pieces from 0
SplitNameFromZero(folder_name, i) == folder_name \o " (" \o ToString(i) \o ")"

\* f"{folder_name} ({i+1})", i counted from 0
SplitName(folder_name, i) == folder_name \o " (" \o ToString(i + 1) \o ")"

\* The key an entry is grouped under in groups
FolderKey(entry) == Get(entry, "folder", "Unsorted")

\* One iteration of "for folder_name, items in groups.items()": the entries
\* this group adds to organized_entries
OrganizeGroup(folder_name, items, max_size) ==
    IF Len(items) <= max_size THEN items
    ELSE LET split_groups == SplitLargeGroup(items, max_size)
         IN Flatten([i \in 1..Len(split_groups) |->
                [j \in 1..Len(split_groups[i]) |->
                    IF Len(split_groups) > 1
                    THEN Put(split_groups[i][j], "folder", SplitName(folder_name, i - 1))
                    ELSE Put(split_groups[i][j], "folder", folder_name)]])

\* organized_entries after the loop over groups
Organize(es, max_size) ==
    LET folderKeys == KeysInOrder([i \in 1..Len(es) |-> FolderKey(es[i])])
    IN Flatten([k \in 1..Len(folderKeys) |->
           OrganizeGroup(folderKeys[k],
                         SelectSeq(es, LAMBDA e : FolderKey(e) = folderKeys[k]),
                         max_size)])

\* LowConfidence with the comparison made inclusive
LowConfidenceInclusive(entry, min_conf) == Get(entry, "confidence", 0) <= min_conf

\* entry.get("confidence", 0) < min_confidence
LowConfidence(entry, min_conf) == Get(entry, "confidence", 0) < min_conf

\* final_entries without the demoted entries
DemoteDropsLow(org, min_conf) ==
    SelectSeq(org, LAMBDA e : ~LowConfidence(e, min_conf))

\* final_entries: the entries above the threshold, then the demoted ones
Demote(org, min_conf) ==
    SelectSeq(org, LAMBDA e : ~LowConfidence(e, min_conf))
    \o LET low == SelectSeq(org, LAMBDA e : LowConfidence(e, min_conf))
       IN [i \in 1..Len(low) |-> Put(low[i], "folder", "Unsorted")]

\* build_folders with use_llm=False: the folder is the original parent
BasicFolders(es) ==
    [i \in 1..Len(es) |-> Put(es[i], "folder", Get(es[i], "parent", "Unsorted"))]

\* build_folders(entries, max_folder_size, min_confidence, use_llm)
build_folders(es, max_size, min_conf, use_llm) ==
    IF ~use_llm THEN BasicFolders(es)
    ELSE Demote(Organize(es, max_size), min_conf)

\* The ids "1", "2", ... the loaders give the entries of a collection
EntryId(i) == ToString(i)

\* What the classifier leaves on an entry it hands to the balancer, besides
\* the id: url and tags, a folder, and a confidence that may be missing
FolderStageShapes ==
    LET sites == {[url |-> "https://a.com/p", tags |-> <<>>],
                  [url |-> "https://a.com/p", tags |-> <<"t">>],
                  [url |-> "https://b.com/q", tags |-> <<"t">>]}
        folders == {"X", "X (1)"}
        confs == {MinConfidence - 1, MinConfidence}
        noConf == {Put(s, "folder", f) : s \in sites, f \in folders}
    IN noConf \cup {Put(e, "confidence", c) : e \in noConf, c \in confs}

\* The fetcher's variables while another component runs
FetcherIdle ==
    /\ concurrency_limit = 0
    /\ semaphore = [value |-> 0, waiters |-> <<>>]
    /\ task = <<>> /\ attempts = <<>> /\ completed = <<>>
    /\ results = <<>> /\ progress = 0

\* The normalizer's and deduplicator's variables while another component runs
CleanerIdle ==
    /\ bookmark_url = <<>> /\ normalized = <<>> /\ deduped = <<>> /\ removed = <<>>

\* The categorize command's variables while a component runs on its own
DriverIdle ==
    /\ driver_pc = "none"
    /\ api_key = "<None>" /\ llm_provider = "gemini"
    /\ shutdown_requested = FALSE /\ at_shutdown = <<>>
    /\ progress_file = <<>> /\ output_file = <<>> /\ exit_code = "<None>"

\* The exporter's variables while another component runs
ExporterIdle == chrome_bookmarks = <<>> /\ html_parts = <<>>

\* The collection whose i-th entry has shape shapes[i] and id EntryId(i)
WithIds(shapes) == [i \in 1..Len(shapes) |-> Put(shapes[i], "id", EntryId(i))]

InitFolders ==
    /\ stage = "folders"
    /\ pc = "start"
    /\ \E n \in 1..MaxEntries : \E shapes \in [1..n -> FolderStageShapes] :
           entries = WithIds(shapes)
    /\ input = entries
    /\ max_folder_size \in 1..MaxFolderSize
    /\ min_confidence = MinConfidence
    /\ organized = <<>>
    /\ batch_size = 0 /\ batches = <<>> /\ batch_idx = 0
    /\ categorized_entries = <<>> /\ history = <<>>
    /\ response = [kind |-> "none"]
    /\ FetcherIdle /\ CleanerIdle /\ DriverIdle /\ ExporterIdle
    /\ result = <<>>

\* The entry objects after a call that returned list: an object the call
\* wrote to is the record of list with its id
Aliased(es, list) ==
    [i \in 1..Len(es) |->
        LET same == SelectSeq(list, LAMBDA r : r.id = es[i].id)
        IN IF same = <<>> THEN es[i] ELSE same[1]]

\* build_folders(entries, max_folder_size, min_confidence, use_llm=True);
\* organized keeps organized_entries as it is before the demotion scan. The
\* function writes item["folder"] on the caller's objects.
BuildFolders ==
    /\ stage = "folders" /\ pc = "start"
    /\ organized' = Organize(entries, max_folder_size)
    /\ result' = build_folders(entries, max_folder_size, min_confidence, TRUE)
    /\ entries' = Aliased(entries, result')
    /\ pc' = "done"
    /\ UNCHANGED <<stage, input, max_folder_size, min_confidence, catVars, fetchVars,
                   cleanVars, driverVars, exportVars>>

NextFolders == BuildFolders

SpecFolders == InitFolders /\ [][NextFolders]_vars

-----------------------------------------------------------------------------
(* Batch classifier: categorizer.py categorize_bookmarks, llm_client.py     *)
(* LLMClient.categorize_batch, gemini_client.py GeminiClient.generate_json  *)

\* Python's None, as the value dict.get(k) gives for a missing key
None == "<None>"

\* JSON values as json.loads returns them: a list of values, a mapping, or
\* anything else (a string, a number, null)
JList(items) == [kind |-> "list", items |-> items]
JDict(d) == [kind |-> "dict", value |-> d]
JScalar == [kind |-> "scalar"]

\* domain.split('.')[0].title(), on the hosts of the model
TitleFirstLabel(domain) ==
    CASE domain = "a.com" -> "A"
      [] domain = "b.com" -> "B"
      [] OTHER -> ""

\* The payload item categorize_bookmarks builds for an entry
Payload(entry) ==
    [id |-> Get(entry, "id", ""),
     title |-> Get(entry, "title", ""),
     meta |-> Get(entry, "meta_description", Get(entry, "meta", "")),
     domain |-> Get(entry, "domain", ""),
     url |-> Get(entry, "url", ""),
     last_modified |-> Get(entry, "last_modified", ""),
     original_folder |-> Get(entry, "parent", "")]

\* batches: the payloads of entries[i:i + batch_size], i = 0, batch_size, ...
PrepareBatchList(es, size) == Chunks([i \in 1..Len(es) |-> Payload(es[i])], size)

\* GeminiClient.generate_json: the parsed reply, or [] when json.loads fails
generate_json(reply) ==
    IF reply.kind = "unparseable" THEN JList(<<>>) ELSE reply

\* The folder _create_fallback_categorization derives for a payload item
FallbackFolder(item) ==
    LET url == Get(item, "url", "")
        fromUrl == IF url # "" /\ Netloc(url) # ""
                   THEN TitleFirstLabel(Netloc(url))
                   ELSE "Unsorted"
        fromDomain == IF fromUrl = "Unsorted" /\ Get(item, "domain", "") # ""
                         /\ TitleFirstLabel(Get(item, "domain", "")) # ""
                      THEN TitleFirstLabel(Get(item, "domain", ""))
                      ELSE fromUrl
    IN IF fromDomain = "" \/ fromDomain = "Unsorted"
       THEN Get(item, "original_folder", "Unsorted")
       ELSE fromDomain

\* create_fallback_categorization giving the values of the except branch of
\* categorize_bookmarks instead of its own
create_fallback_as_except_branch(batch) ==
    [i \in 1..Len(batch) |->
        [id |-> Get(batch[i], "id", ""),
         folder |-> IF Get(batch[i], "original_folder", "") # ""
                    THEN batch[i].original_folder ELSE "Unsorted",
         tags |-> <<>>,
         confidence |-> 0]]

\* LLMClient._create_fallback_categorization(batch)
create_fallback_categorization(batch) ==
    [i \in 1..Len(batch) |->
        [id |-> Get(batch[i], "id", ""),
         folder |-> FallbackFolder(batch[i]),
         tags |-> <<>>,
         confidence |-> 3]]

\* isinstance(item, dict) and "id" in item
ValidItem(item) == item.kind = "dict" /\ "id" \in DOMAIN item.value

\* NormalizeItem reading the folder under the key of the older response
\* schema (category_label, as _validate_item does)
NormalizeItemLegacyKey(item) ==
    [id |-> item.value["id"],
     folder |-> Get(item.value, "category_label", "Unsorted"),
     tags |-> Get(item.value, "tags", <<>>),
     confidence |-> 7]

\* The normalized form of a valid response item
NormalizeItem(item) ==
    [id |-> item.value["id"],
     folder |-> Get(item.value, "folder", "Unsorted"),
     tags |-> Get(item.value, "tags", <<>>),
     confidence |-> 7]

\* LLMClient.categorize_batch, from the provider's parsed response on
categorize_batch(batch, resp) ==
    LET items == IF resp.kind = "list" THEN resp.items
                 ELSE IF resp.kind = "dict" THEN <<resp>>
                 ELSE <<>>
        valid == SelectSeq(items, ValidItem)
        validated == [i \in 1..Len(valid) |-> NormalizeItem(valid[i])]
    IN IF validated = <<>>
       THEN create_fallback_categorization(batch)
       ELSE validated

\* next((e for e in entries if e.get("id") == id), None), as a sequence of
\* no or one entry
FindEntry(es, id) ==
    LET hits == SelectSeq(es, LAMBDA e : Get(e, "id", None) = id)
    IN IF hits = <<>> THEN <<>> ELSE <<hits[1]>>

\* {**original_entry, "folder": f, "tags": t, "confidence": c}
WithCategory(entry, f, t, c) ==
    Put(Put(Put(entry, "folder", f), "tags", t), "confidence", c)

\* The merge loop body: what one llm_item appends to categorized_entries
MergeItem(es, llm_item) ==
    LET found == FindEntry(es, llm_item["id"])
    IN IF found # <<>> /\ DOMAIN found[1] # {}
       THEN <<WithCategory(found[1],
                           Get(llm_item, "folder", "Unsorted"),
                           Get(llm_item, "tags", <<>>),
                           Get(llm_item, "confidence", 5))>>
       ELSE <<>>

\* The merge loop over llm_results
MergeResults(es, llm_results) ==
    Flatten([i \in 1..Len(llm_results) |-> MergeItem(es, llm_results[i])])

\* The except branch body: what one payload item appends
FallbackItem(es, item) ==
    LET found == FindEntry(es, item["id"])
    IN IF found # <<>> /\ DOMAIN found[1] # {}
       THEN <<WithCategory(found[1], Get(found[1], "parent", "Unsorted"), <<>>, 0)>>
       ELSE <<>>

\* The except branch over the batch
FallbackBatch(es, batch) ==
    Flatten([i \in 1..Len(batch) |-> FallbackItem(es, batch[i])])

\* What the loaders leave on an entry besides the id: a url (possibly
\* empty), a title, and a parent that may be empty or missing
CatStageShapes ==
    {[url |-> "https://a.com/p", title |-> "T", parent |-> "Work"],
     [url |-> "", title |-> "T", parent |-> ""],
     [url |-> "https://b.com/q", title |-> "T"]}

\* The item the system prompt asks for: {id, folder, tags}
WellFormedItem(id) == JDict([id |-> id, folder |-> "Dev", tags |-> <<"dev">>])

\* A mapping without "id"
NoIdItem == JDict([folder |-> "Dev"])

\* A well-formed item that also gives a confidence (0.9)
ConfidentItem(id) ==
    JDict([id |-> id, folder |-> "Dev", tags |-> <<"dev">>, confidence |-> 9])

\* Valid items without folder and tags, with folder null, with folder ""
BareItem(id) == JDict([id |-> id])
NullFolderItem(id) == JDict([id |-> id, folder |-> None, tags |-> <<"dev">>])
EmptyFolderItem(id) == JDict([id |-> id, folder |-> "", tags |-> <<"dev">>])

\* The ids of a batch at the positions in S, in batch order
IdsAt(batch, S) ==
    LET at == SelectSeq([i \in 1..Len(batch) |-> i], LAMBDA i : i \in S)
    IN [k \in 1..Len(at) |-> batch[at[k]].id]

\* The response that answers the whole batch: one item per id, in order
FullResponse(batch) ==
    JList([i \in 1..Len(batch) |-> WellFormedItem(batch[i].id)])

\* The provider's replies to a batch: lists that answer any part of the
\* batch, possibly followed by one more item (the first id of the batch
\* again, the id of an entry of another batch, an id of no entry, a mapping
\* without id, a non-mapping); a list of one item that gives a confidence,
\* or no folder and tags, or a null or empty folder; a bare mapping; a
\* scalar; text json.loads rejects
Replies(batch, es) ==
    LET batchIds == {batch[i].id : i \in 1..Len(batch)}
        others == {i \in 1..Len(es) : es[i].id \notin batchIds}
        foreign == IF others = {} THEN {}
                   ELSE {es[CHOOSE i \in others : \A o \in others : i <= o].id}
        extras == {<<>>, <<JScalar>>, <<NoIdItem>>}
                  \cup {<<WellFormedItem(id)>> : id \in {batch[1].id, "zz"} \cup foreign}
        answered == {IdsAt(batch, S) : S \in SUBSET (1..Len(batch))}
    IN {JList([i \in 1..Len(a) |-> WellFormedItem(a[i])] \o x) :
            a \in answered, x \in extras}
       \cup {JList(<<item>>) :
                 item \in {ConfidentItem(batch[1].id), BareItem(batch[1].id),
                           NullFolderItem(batch[1].id), EmptyFolderItem(batch[1].id)}}
       \cup {WellFormedItem(batch[1].id), NoIdItem, JScalar,
             [kind |-> "unparseable"]}

\* A reply from which no valid item can be taken: text that is not JSON, a
\* value that is neither a list nor a mapping, a mapping without id, a list
\* none of whose items is a mapping with an id
Malformed(reply) ==
    \/ reply.kind \in {"unparseable", "scalar"}
    \/ reply.kind = "dict" /\ "id" \notin DOMAIN reply.value
    \/ reply.kind = "list" /\ \A i \in 1..Len(reply.items) :
          ~(reply.items[i].kind = "dict" /\ "id" \in DOMAIN reply.items[i].value)

\* What history records for a reply
ReplyTag(batch, reply) ==
    IF reply = FullResponse(batch) THEN "full"
    ELSE IF Malformed(reply) THEN "malformed"
    ELSE "items"

InitCategorize ==
    /\ stage = "categorize"
    /\ pc = "start"
    /\ \E n \in 1..MaxEntries : \E shapes \in [1..n -> CatStageShapes] :
           entries = WithIds(shapes)
    /\ input = entries
    /\ batch_size \in 1..MaxBatchSize
    /\ batches = <<>> /\ batch_idx = 0
    /\ categorized_entries = <<>> /\ history = <<>>
    /\ response = [kind |-> "none"]
    /\ FetcherIdle /\ CleanerIdle /\ DriverIdle /\ ExporterIdle
    /\ max_folder_size = 0 /\ min_confidence = 0 /\ organized = <<>>
    /\ result = <<>>

\* categorize_bookmarks, "Prepare batches"
PrepareBatches ==
    /\ stage = "categorize" /\ pc = "start"
    /\ batches' = PrepareBatchList(entries, batch_size)
    /\ pc' = "loop"
    /\ UNCHANGED <<stage, input, entries, foldVars, fetchVars, batch_size,
                   batch_idx, categorized_entries, response, history, result,
                   cleanVars, driverVars, exportVars>>

\* What one iteration of "for batch_idx, batch in enumerate(batches)" appends
\* when categorize_batch returns
MergedBatch(es, batch, reply) ==
    MergeResults(es, categorize_batch(batch, generate_json(reply)))

\* One iteration of the loop over batches, the provider replying
BatchAnswered ==
    /\ stage = "categorize" /\ pc = "loop" /\ batch_idx < Len(batches)
    /\ LET batch == batches[batch_idx + 1]
       IN \E reply \in Replies(batch, entries) :
            /\ categorized_entries' =
                   categorized_entries \o MergedBatch(entries, batch, reply)
            /\ response' = reply
            /\ history' = Append(history, ReplyTag(batch, reply))
    /\ batch_idx' = batch_idx + 1
    /\ UNCHANGED <<stage, pc, input, entries, foldVars, fetchVars, batch_size,
                   batches, result,
                   cleanVars, driverVars, exportVars>>

\* BatchRaised without the except branch: the exception leaves the function
BatchRaisedPropagates ==
    /\ stage = "categorize" /\ pc = "loop" /\ batch_idx < Len(batches)
    /\ pc' = "raised"
    /\ response' = [kind |-> "raise"]
    /\ history' = Append(history, "raised")
    /\ UNCHANGED <<stage, input, entries, foldVars, fetchVars, batch_size, batches,
                   batch_idx, categorized_entries, result,
                   cleanVars, driverVars, exportVars>>

\* One iteration of the loop over batches, the provider call raising
BatchRaised ==
    /\ stage = "categorize" /\ pc = "loop" /\ batch_idx < Len(batches)
    /\ categorized_entries' =
           categorized_entries \o FallbackBatch(entries, batches[batch_idx + 1])
    /\ response' = [kind |-> "raise"]
    /\ history' = Append(history, "raised")
    /\ batch_idx' = batch_idx + 1
    /\ UNCHANGED <<stage, pc, input, entries, foldVars, fetchVars, batch_size,
                   batches, result,
                   cleanVars, driverVars, exportVars>>

\* return categorized_entries
ReturnCategorized ==
    /\ stage = "categorize" /\ pc = "loop" /\ batch_idx = Len(batches)
    /\ result' = categorized_entries
    /\ pc' = "done"
    /\ UNCHANGED <<stage, input, entries, foldVars, catVars, fetchVars,
                   cleanVars, driverVars, exportVars>>

NextCategorize == PrepareBatches \/ BatchAnswered \/ BatchRaised \/ ReturnCategorized

SpecCategorize == InitCategorize /\ [][NextCategorize]_vars

-----------------------------------------------------------------------------
(* Metadata fetcher: fetcher.py MetadataFetcher *)

\* @retry(stop=stop_after_attempt(3))
StopAfterAttempt == 3

\* What the loaders leave on an entry besides the id, as far as the fetcher
\* reads it: a url, possibly empty
FetchStageShapes ==
    {[url |-> "https://a.com/p", title |-> "T"], [url |-> "", title |-> "T"]}

\* The errors client.get, raise_for_status and the parser raise
FetchErrors == {"ConnectError", "HTTPStatusError 404"}

\* The metadata dict fetch_single extracts from a page; a tag the page lacks
\* gives None
PageMetadata ==
    [fetched_title |-> "Page", description |-> None,
     keywords |-> None, content_snippet |-> "text"]

\* An update that writes the title only
UpdateTitleOnly(entry, metadata) ==
    Put(entry, "fetched_title", metadata.fetched_title)

\* entry.update(metadata)
Update(entry, metadata) ==
    [k \in DOMAIN entry \cup DOMAIN metadata |->
        IF k \in DOMAIN metadata THEN metadata[k] ELSE entry[k]]

\* Whether an error raised inside the try block of fetch_single leaves
\* fetch_single: "except Exception" catches each of them
EscapesFetchSingle(error) == FALSE

\* tenacity's retry around fetch_single: the call is made again when it
\* raised and fewer than stop_after_attempt calls have been made
RetryAgain(raised, made) == raised /\ made < StopAfterAttempt

\* An acquire that looks only at the queue, not at the counter
AcquireIgnoringCounter(sem) == sem.waiters = <<>>

\* asyncio.Semaphore.acquire returns at once: the counter is positive and
\* no task is queued before this one
AcquireNow(sem) == sem.value > 0 /\ sem.waiters = <<>>

\* The tasks inside "async with self.semaphore", their request in flight
InFlight == {i \in 1..Len(task) : task[i] = "inflight"}

InitFetch ==
    /\ stage = "fetch"
    /\ pc = "gather"
    /\ \E n \in 1..MaxEntries : \E shapes \in [1..n -> FetchStageShapes] :
           entries = WithIds(shapes)
    /\ input = entries
    /\ concurrency_limit \in 1..MaxConcurrency
    /\ semaphore = [value |-> concurrency_limit, waiters |-> <<>>]
    /\ CleanerIdle /\ DriverIdle /\ ExporterIdle
    /\ task = [i \in 1..Len(entries) |-> "new"]
    /\ attempts = [i \in 1..Len(entries) |-> 0]
    /\ completed = <<>> /\ results = <<>> /\ progress = 0
    /\ max_folder_size = 0 /\ min_confidence = 0 /\ organized = <<>>
    /\ batch_size = 0 /\ batches = <<>> /\ batch_idx = 0
    /\ categorized_entries = <<>> /\ history = <<>>
    /\ response = [kind |-> "none"]
    /\ result = <<>>

\* fetch_single is called for an entry without url: "return entry"
StartNoUrl(i) ==
    /\ stage = "fetch" /\ pc = "gather" /\ task[i] = "new"
    /\ Get(entries[i], "url", "") = ""
    /\ attempts' = [attempts EXCEPT ![i] = @ + 1]
    /\ task' = [task EXCEPT ![i] = "done"]
    /\ completed' = Append(completed, i)
    /\ UNCHANGED <<stage, pc, input, entries, foldVars, catVars,
                   concurrency_limit, semaphore, results, progress, result,
                   cleanVars, driverVars, exportVars>>

\* fetch_single is called, enters the semaphore at once and sends the request
StartAcquire(i) ==
    /\ stage = "fetch" /\ pc = "gather" /\ task[i] = "new"
    /\ Get(entries[i], "url", "") # ""
    /\ AcquireNow(semaphore)
    /\ attempts' = [attempts EXCEPT ![i] = @ + 1]
    /\ semaphore' = [semaphore EXCEPT !.value = @ - 1]
    /\ task' = [task EXCEPT ![i] = "inflight"]
    /\ UNCHANGED <<stage, pc, input, entries, foldVars, catVars,
                   concurrency_limit, completed, results, progress, result,
                   cleanVars, driverVars, exportVars>>

\* fetch_single is called and queues on the semaphore
StartWait(i) ==
    /\ stage = "fetch" /\ pc = "gather" /\ task[i] = "new"
    /\ Get(entries[i], "url", "") # ""
    /\ ~AcquireNow(semaphore)
    /\ attempts' = [attempts EXCEPT ![i] = @ + 1]
    /\ semaphore' = [semaphore EXCEPT !.waiters = Append(@, i)]
    /\ task' = [task EXCEPT ![i] = "waiting"]
    /\ UNCHANGED <<stage, pc, input, entries, foldVars, catVars,
                   concurrency_limit, completed, results, progress, result,
                   cleanVars, driverVars, exportVars>>

\* The first queued task enters the semaphore and sends the request
Wake ==
    /\ stage = "fetch" /\ pc = "gather"
    /\ semaphore.waiters # <<>> /\ semaphore.value > 0
    /\ LET i == Head(semaphore.waiters)
       IN task' = [task EXCEPT ![i] = "inflight"]
    /\ semaphore' = [value |-> semaphore.value - 1,
                     waiters |-> Tail(semaphore.waiters)]
    /\ UNCHANGED <<stage, pc, input, entries, foldVars, catVars, attempts,
                   concurrency_limit, completed, results, progress, result,
                   cleanVars, driverVars, exportVars>>

\* The request returns a page: the metadata is written, the semaphore left
FetchSucceeds(i) ==
    /\ stage = "fetch" /\ pc = "gather" /\ task[i] = "inflight"
    /\ entries' = [entries EXCEPT ![i] = Update(@, PageMetadata)]
    /\ semaphore' = [semaphore EXCEPT !.value = @ + 1]
    /\ task' = [task EXCEPT ![i] = "done"]
    /\ completed' = Append(completed, i)
    /\ UNCHANGED <<stage, pc, input, foldVars, catVars, attempts,
                   concurrency_limit, results, progress, result,
                   cleanVars, driverVars, exportVars>>

\* FetchFails without the release of "async with": the semaphore stays
\* taken
FetchFailsHoldingSemaphore(i) ==
    /\ stage = "fetch" /\ pc = "gather" /\ task[i] = "inflight"
    /\ \E error \in FetchErrors :
         entries' = [entries EXCEPT ![i] = Put(@, "fetch_error", error)]
    /\ task' = [task EXCEPT ![i] = "done"]
    /\ completed' = Append(completed, i)
    /\ UNCHANGED <<stage, pc, input, foldVars, catVars, attempts,
                   concurrency_limit, semaphore, results, progress, result,
                   cleanVars, driverVars, exportVars>>

\* The request or the parsing raises: the semaphore is left, the except
\* clause writes fetch_error, and tenacity sees what leaves fetch_single
FetchFails(i) ==
    /\ stage = "fetch" /\ pc = "gather" /\ task[i] = "inflight"
    /\ \E error \in FetchErrors :
         /\ entries' = [entries EXCEPT ![i] = Put(@, "fetch_error", error)]
         /\ IF RetryAgain(EscapesFetchSingle(error), attempts[i])
            THEN /\ task' = [task EXCEPT ![i] = "new"]
                 /\ completed' = completed
            ELSE /\ task' = [task EXCEPT ![i] = "done"]
                 /\ completed' = Append(completed, i)
    /\ semaphore' = [semaphore EXCEPT !.value = @ + 1]
    /\ UNCHANGED <<stage, pc, input, foldVars, catVars, attempts,
                   concurrency_limit, results, progress, result,
                   cleanVars, driverVars, exportVars>>

\* Collect leaving out the entries whose fetch failed
CollectDropsFailed ==
    /\ stage = "fetch" /\ pc = "gather" /\ completed # <<>>
    /\ results' = IF "fetch_error" \in DOMAIN entries[Head(completed)]
                  THEN results
                  ELSE Append(results, entries[Head(completed)])
    /\ progress' = progress + 1
    /\ task' = [task EXCEPT ![Head(completed)] = "collected"]
    /\ completed' = Tail(completed)
    /\ UNCHANGED <<stage, pc, input, entries, foldVars, catVars, attempts,
                   concurrency_limit, semaphore, result,
                   cleanVars, driverVars, exportVars>>

\* One iteration of "for coro in asyncio.as_completed(tasks)"
Collect ==
    /\ stage = "fetch" /\ pc = "gather" /\ completed # <<>>
    /\ results' = Append(results, entries[Head(completed)])
    /\ progress' = progress + 1
    /\ task' = [task EXCEPT ![Head(completed)] = "collected"]
    /\ completed' = Tail(completed)
    /\ UNCHANGED <<stage, pc, input, entries, foldVars, catVars, attempts,
                   concurrency_limit, semaphore, result,
                   cleanVars, driverVars, exportVars>>

\* return results
FetchReturn ==
    /\ stage = "fetch" /\ pc = "gather"
    /\ \A i \in 1..Len(task) : task[i] = "collected"
    /\ result' = results
    /\ pc' = "done"
    /\ UNCHANGED <<stage, input, entries, foldVars, catVars, fetchVars,
                   cleanVars, driverVars, exportVars>>

NextFetch ==
    \/ \E i \in 1..Len(task) : StartNoUrl(i)
    \/ \E i \in 1..Len(task) : StartAcquire(i)
    \/ \E i \in 1..Len(task) : StartWait(i)
    \/ Wake
    \/ \E i \in 1..Len(task) : FetchSucceeds(i)
    \/ \E i \in 1..Len(task) : FetchFails(i)
    \/ Collect
    \/ FetchReturn

SpecFetch == InitFetch /\ [][NextFetch]_vars

-----------------------------------------------------------------------------
(* Properties of the folder balancer *)

\* The records of a list that carry the given id
WithId(list, id) == SelectSeq(list, LAMBDA r : Get(r, "id", None) = id)

\* The number of records of a list labelled with folder f
Labelled(list, f) ==
    Cardinality({k \in 1..Len(list) : Get(list[k], "folder", "Unsorted") = f})

FoldersDone == stage = "folders" /\ pc = "done"

\* C1: after build_folders (LLM mode) every folder name other than "Unsorted"
\* labels at most max_folder_size entries of the output, also when a name made
\* by splitting ("X (1)") is the name of a folder of the input.
C1_FolderSizeBound ==
    FoldersDone =>
        \A k \in 1..Len(result) :
            LET f == Get(result[k], "folder", "Unsorted")
            IN f # "Unsorted" => Labelled(result, f) <= max_folder_size

\* C2: after build_folders (LLM mode) every entry whose confidence on input
\* was below min_confidence (a missing confidence counting as 0) is in the
\* output with folder "Unsorted", whichever folder or split piece it was in,
\* and every entry whose confidence was at least min_confidence is in the
\* output with the folder it had after splitting: demotion does not move it.
C2_ConfidenceSink ==
    FoldersDone =>
        \A i \in 1..Len(input) :
            LET e == input[i]
                out == WithId(result, e.id)
                org == WithId(organized, e.id)
                conf == IF "confidence" \in DOMAIN e THEN e.confidence ELSE 0
            IN /\ Len(out) = 1 /\ Len(org) = 1
               /\ conf < min_confidence => out[1].folder = "Unsorted"
               /\ conf >= min_confidence => out[1].folder = org[1].folder

\* C2 witness: an entry without confidence that splitting put in "X (1)" ends
\* in "Unsorted", and an entry at the threshold stays in the piece "X (2)".
C2_Witness ==
    /\ FoldersDone
    /\ \E i, j \in 1..Len(input) :
         /\ "confidence" \notin DOMAIN input[i]
         /\ WithId(organized, input[i].id)[1].folder = "X (1)"
         /\ WithId(result, input[i].id)[1].folder = "Unsorted"
         /\ input[j].folder = "X"
         /\ "confidence" \in DOMAIN input[j]
         /\ input[j].confidence = min_confidence
         /\ WithId(result, input[j].id)[1].folder = "X (2)"

-----------------------------------------------------------------------------
(* Properties of the batch classifier *)

CategorizeDone == stage = "categorize" /\ pc = "done"

\* The batches (numbered from 1) the provider call raised for
RaisedBatches == {b \in 1..Len(history) : history[b] = "raised"}

\* C3: if the provider call raises for a batch, every entry of that batch is
\* exactly once in the output of categorize_bookmarks, with confidence 0.0
\* and tags [], and the fallback touches no entry of another batch.
C3_RaisedBatchFallback ==
    CategorizeDone =>
        \A b \in 1..Len(batches) : \A k \in 1..Len(batches[b]) :
            LET out == WithId(result, batches[b][k].id)
            IN IF b \in RaisedBatches
               THEN /\ Len(out) = 1
                    /\ out[1].confidence = 0
                    /\ out[1].tags = <<>>
               ELSE \A r \in 1..Len(out) : out[r].confidence # 0

\* C4: whatever the provider does, every input entry is in the output of
\* categorize_bookmarks with folder, tags and confidence set.
C4_EveryEntryCategorized ==
    CategorizeDone =>
        \A i \in 1..Len(input) :
            \E k \in 1..Len(result) :
                /\ result[k].id = input[i].id
                /\ {"folder", "tags", "confidence"} \subseteq DOMAIN result[k]

\* C5: the ids of the input being pairwise distinct, the ids of the output of
\* categorize_bookmarks are pairwise distinct, and the output is no longer
\* than the input.
C5_OutputIdsDistinct ==
    CategorizeDone =>
        /\ \A j, k \in 1..Len(result) : j # k => result[j].id # result[k].id
        /\ Len(result) <= Len(input)

\* Every batch was answered with one well-formed item per id of the batch
AllAnsweredInFull ==
    /\ Len(history) = Len(batches)
    /\ \A b \in 1..Len(history) : history[b] = "full"

\* C6: if for every batch the provider returns exactly one well-formed item
\* for each id of the batch, the output holds every input entry exactly
\* once, as the entry with folder and tags set to the provider's values, its
\* other fields unchanged; and the input entry objects are as passed in.
C6_MergeOnFullResponse ==
    /\ stage = "categorize" => entries = input
    /\ CategorizeDone /\ AllAnsweredInFull =>
         /\ Len(result) = Len(input)
         /\ \A i \in 1..Len(input) :
              LET out == WithId(result, input[i].id)
              IN /\ Len(out) = 1
                 /\ out[1].folder = "Dev"
                 /\ out[1].tags = <<"dev">>
                 /\ DOMAIN out[1] =
                      DOMAIN input[i] \cup {"folder", "tags", "confidence"}
                 /\ \A f \in DOMAIN input[i] : out[1][f] = input[i][f]

\* C6 witness: a collection of two batches, both answered in full, returned
C6_Witness ==
    /\ CategorizeDone /\ AllAnsweredInFull
    /\ Len(batches) = 2 /\ Len(batches[1]) = 2
    /\ Len(result) = Len(input)

\* The list holds, for each entry of batch b, a fallback record: no tags and
\* the confidence conf
FallbackApplied(list, b, conf) ==
    \A k \in 1..Len(batches[b]) :
        \E r \in 1..Len(list) :
            /\ list[r].id = batches[b][k].id
            /\ list[r].confidence = conf
            /\ list[r].tags = <<>>

\* The batches (numbered from 1) answered with a malformed reply
MalformedBatches == {b \in 1..Len(history) : history[b] = "malformed"}

\* C7: categorize_bookmarks does not raise because a batch failed: the
\* batches are submitted one after the other, a batch whose provider call
\* raised or whose reply was unusable has had its fallback applied, the
\* function is never stuck before it has returned, and it returns only after
\* the last batch.
C7_AdvancesPastFailedBatch ==
    stage = "categorize" /\ pc # "start" =>
        /\ pc \in {"loop", "done"}
        /\ Len(history) = batch_idx
        /\ batch_idx <= Len(batches)
        /\ \A b \in RaisedBatches : FallbackApplied(categorized_entries, b, 0)
        /\ \A b \in MalformedBatches : FallbackApplied(categorized_entries, b, 3)
        /\ pc = "done" => batch_idx = Len(batches)
        /\ pc = "loop" /\ batch_idx = Len(batches) => ENABLED ReturnCategorized

\* C7 witness: the first of three batches raised, all three were submitted
\* and the function has returned
C7_Witness ==
    /\ CategorizeDone
    /\ Len(batches) = 3 /\ Len(history) = 3
    /\ history[1] = "raised" /\ history[2] = "malformed" /\ history[3] = "full"

-----------------------------------------------------------------------------
(* Properties of the metadata fetcher *)

\* C9: during fetch_metadata the number of entries whose request is in
\* flight inside the limiter is at most concurrency_limit.
C9_InFlightBounded ==
    stage = "fetch" =>
        /\ Cardinality(InFlight)
               <= concurrency_limit
        /\ semaphore.value >= 0

\* C9 witness: the limiter is full, with a task queued behind it
C9_Witness ==
    /\ stage = "fetch"
    /\ Cardinality(InFlight) = concurrency_limit
    /\ \E i \in 1..Len(task) : task[i] = "waiting"

\* C10: the fetch of an entry whose request fails is attempted again, up to
\* 3 attempts in all, and fetch_error is set on the entry only after the last
\* of these attempts has failed.
C10_ErrorOnlyAfterThreeAttempts ==
    stage = "fetch" =>
        \A i \in 1..Len(entries) :
            "fetch_error" \in DOMAIN entries[i] => attempts[i] = StopAfterAttempt

FetchDone == stage = "fetch" /\ pc = "done"

\* C11: fetch_metadata returns a list holding each input entry exactly once
\* (as long as the input, in any order), whichever fetches fail; a failing
\* fetch does not make fetch_metadata raise, removes no entry and leaves every
\* entry's url and id as they were.
C11_FetchKeepsEveryEntry ==
    stage = "fetch" =>
        /\ pc \in {"gather", "done"}
        /\ Len(entries) = Len(input)
        /\ \A i \in 1..Len(input) :
             /\ entries[i].id = input[i].id
             /\ entries[i].url = input[i].url
        /\ pc = "gather" /\ (\A i \in 1..Len(task) : task[i] = "collected")
               => ENABLED FetchReturn
        /\ pc = "done" =>
             /\ Len(result) = Len(input)
             /\ \A i \in 1..Len(input) :
                  LET out == WithId(result, input[i].id)
                  IN /\ Len(out) = 1
                     /\ out[1].url = input[i].url
                     /\ \A f \in DOMAIN input[i] : out[1][f] = input[i][f]

\* C11 witness: fetch_metadata has returned a list in another order than the
\* input, with an entry whose fetch failed and one whose fetch succeeded
C11_Witness ==
    /\ FetchDone
    /\ result[1].id # input[1].id
    /\ \E j, k \in 1..Len(result) :
         /\ "fetch_error" \in DOMAIN result[j]
         /\ "fetched_title" \in DOMAIN result[k]
         /\ "fetch_error" \notin DOMAIN result[k]

-----------------------------------------------------------------------------
(* Normalizer: normalizer.py normalize_url, over urllib.parse *)

\* A url string is a sequence of tokens, each token a run of characters: a
\* word (letters and dots), a number, or one punctuation character. No token
\* sequence spells the same string as another.
Words == {"HTTPS", "https", "HTTP", "http", "Example.COM", "example.com", "P", "p", "u"}
Digits == {"443", "80", "9"}

\* str.lower() of a token without it
LowerCaseIdentity(tok) == tok

\* str.lower() of a token
LowerCase(tok) ==
    CASE tok = "HTTPS" -> "https"
      [] tok = "HTTP" -> "http"
      [] tok = "Example.COM" -> "example.com"
      [] tok = "P" -> "p"
      [] OTHER -> tok

\* str.lower() of a string
Lower(s) == [i \in 1..Len(s) |-> LowerCase(s[i])]

\* s.find(c, from): the first position of c at or after from, 0 when none
\* (positions counted from 1)
Find(s, c, from) ==
    LET hits == {i \in from..Len(s) : s[i] = c}
    IN IF hits = {} THEN 0 ELSE CHOOSE i \in hits : \A j \in hits : i <= j

\* s.rfind(c): the last position of c, 0 when none
RFind(s, c) ==
    LET hits == {i \in 1..Len(s) : s[i] = c}
    IN IF hits = {} THEN 0 ELSE CHOOSE i \in hits : \A j \in hits : j <= i

\* s.rstrip(c)
RECURSIVE RStrip(_, _)
RStrip(s, c) ==
    IF s # <<>> /\ s[Len(s)] = c THEN RStrip(SubSeq(s, 1, Len(s) - 1), c) ELSE s

\* s[:i-1] and s[i:], for a position i counted from 1
Before(s, i) == SubSeq(s, 1, i - 1)
After(s, i) == SubSeq(s, i + 1, Len(s))

\* The schemes of urllib.parse.uses_params and uses_netloc the model's
\* tokens can spell
UsesParams == {<<>>, <<"http">>, <<"https">>}
UsesNetloc == {<<>>, <<"http">>, <<"https">>}

\* The position of the ':' that ends the scheme of u, 0 when u has no scheme
SchemeEnd(u) ==
    LET colon == Find(u, ":", 1)
    IN IF /\ colon > 1
          /\ u[1] \in Words
          /\ \A i \in 1..(colon - 1) : u[i] \in Words \cup Digits
       THEN colon ELSE 0

\* s cut at position i (the character at i dropped); s whole and an empty
\* tail when i is 0
CutAt(s, i) ==
    [head |-> IF i > 0 THEN Before(s, i) ELSE s,
     tail |-> IF i > 0 THEN After(s, i) ELSE <<>>]

\* _splitnetloc: the netloc after a leading "//" up to the first of "/?#",
\* and what follows it
SplitNetloc(rest) ==
    IF Len(rest) >= 2 /\ rest[1] = "/" /\ rest[2] = "/"
    THEN LET delims == {Find(After(rest, 2), d, 1) : d \in {"/", "?", "#"}} \ {0}
             delim == IF delims = {} THEN Len(rest) - 1
                      ELSE CHOOSE i \in delims : \A j \in delims : i <= j
         IN [netloc |-> SubSeq(rest, 3, delim + 1),
             rest |-> SubSeq(rest, delim + 2, Len(rest))]
    ELSE [netloc |-> <<>>, rest |-> rest]

\* _splitparams for a scheme of uses_params: the path cut at the first ';'
\* of its last segment
SplitParams(scheme, path) ==
    LET slash == RFind(path, "/")
    IN CutAt(path, IF scheme \in UsesParams
                   THEN Find(path, ";", IF slash > 0 THEN slash ELSE 1)
                   ELSE 0)

\* The six parts, the path still holding its parameters
ParseResult(scheme, netloc, fragment, query, split) ==
    [scheme |-> scheme,
     netloc |-> netloc,
     path |-> split.head,
     params |-> split.tail,
     query |-> query,
     fragment |-> fragment]

\* urlsplit after the fragment is cut off: the query, then the parameters
ParseQuery(scheme, netloc, fragment, cut) ==
    ParseResult(scheme, netloc, fragment, cut.tail, SplitParams(scheme, cut.head))

\* urlsplit after the netloc is cut off: the fragment
ParseFragment(scheme, netloc, cut) ==
    ParseQuery(scheme, netloc, cut.tail, CutAt(cut.head, Find(cut.head, "?", 1)))

\* urlsplit after the scheme is cut off: the netloc
ParseNetloc(scheme, split) ==
    ParseFragment(scheme, split.netloc, CutAt(split.rest, Find(split.rest, "#", 1)))

\* urllib.parse.urlparse(url): scheme, netloc, path, params, query, fragment
urlparse(u) ==
    ParseNetloc(Lower(Before(u, SchemeEnd(u))), SplitNetloc(After(u, SchemeEnd(u))))

\* netloc.rpartition('@')[2]
HostInfo(netloc) == After(netloc, RFind(netloc, "@"))

\* ParseResult.hostname, "" for None
Hostname(netloc) ==
    LET hostinfo == HostInfo(netloc)
        colon == Find(hostinfo, ":", 1)
    IN Lower(IF colon > 0 THEN Before(hostinfo, colon) ELSE hostinfo)

\* The text of the port in netloc, "" when there is none
PortText(netloc) ==
    LET hostinfo == HostInfo(netloc)
        colon == Find(hostinfo, ":", 1)
    IN IF colon > 0 THEN After(hostinfo, colon) ELSE <<>>

RECURSIVE Pow10(_)
Pow10(n) == IF n = 0 THEN 1 ELSE 10 * Pow10(n - 1)

DigitCount(tok) == CASE tok = "443" -> 3 [] tok = "80" -> 2 [] OTHER -> 1
IntOf(tok) == CASE tok = "443" -> 443 [] tok = "80" -> 80 [] OTHER -> 9

\* int(port) for a port text of digits
RECURSIVE PortValue(_)
PortValue(port) ==
    IF port = <<>> THEN 0
    ELSE PortValue(SubSeq(port, 1, Len(port) - 1)) * Pow10(DigitCount(port[Len(port)]))
         + IntOf(port[Len(port)])

\* ParseResult.port raises ValueError: the port text is not a number, or is
\* out of range
PortRaises(port) ==
    /\ port # <<>>
    /\ \/ \E i \in 1..Len(port) : port[i] \notin Digits
       \/ PortValue(port) > 65535

\* urllib.parse.urlunparse((scheme, netloc, path, params, query, fragment))
urlunparse(scheme, netloc, path, params, query, fragment) ==
    LET u1 == IF params # <<>> THEN path \o <<";">> \o params ELSE path
        u2 == IF netloc # <<>>
                 \/ (scheme # <<>> /\ scheme \in UsesNetloc
                     /\ ~(Len(u1) >= 2 /\ u1[1] = "/" /\ u1[2] = "/"))
              THEN <<"/", "/">> \o netloc
                   \o (IF u1 # <<>> /\ u1[1] # "/" THEN <<"/">> \o u1 ELSE u1)
              ELSE u1
        u3 == IF scheme # <<>> THEN scheme \o <<":">> \o u2 ELSE u2
        u4 == IF query # <<>> THEN u3 \o <<"?">> \o query ELSE u3
    IN IF fragment # <<>> THEN u4 \o <<"#">> \o fragment ELSE u4

\* The ":port" the normalized netloc ends with: nothing for no port and for
\* the default port of the scheme
PortSuffix(scheme, text) ==
    IF \/ text = <<>>
       \/ (scheme = <<"http">> /\ PortValue(text) = 80)
       \/ (scheme = <<"https">> /\ PortValue(text) = 443)
    THEN <<>> ELSE <<":">> \o text

\* The body of normalize_url's try block for a parsed url; the except branch
\* returns the url as given. The tokens hold no digit 0, so str(int(port))
\* is the port text and no port is 0.
NormalizeParsed(u, parsed, scheme) ==
    IF PortRaises(PortText(parsed.netloc)) THEN u
    ELSE urlunparse(scheme,
                    Hostname(parsed.netloc) \o PortSuffix(scheme, PortText(parsed.netloc)),
                    RStrip(parsed.path, "/"),
                    parsed.params, parsed.query, parsed.fragment)

\* normalize_url(url)
normalize_url(u) ==
    IF u = <<>> THEN u
    ELSE NormalizeParsed(u, urlparse(u), Lower(urlparse(u).scheme))

\* The number of times the Clean step is run over the same bookmark
MaxPasses == 2

\* The balancer's and the classifier's variables while another component runs
BalancerIdle == max_folder_size = 0 /\ min_confidence = 0 /\ organized = <<>>

ClassifierIdle ==
    /\ batch_size = 0 /\ batches = <<>> /\ batch_idx = 0
    /\ categorized_entries = <<>> /\ history = <<>>
    /\ response = [kind |-> "none"]

\* The url strings given to normalize_url: an optional scheme in either case,
\* an optional authority with user-info, default and other ports, and paths
\* with one or several trailing slashes, a parameter mark, or no slash at all
UrlInputs ==
    LET schemes == {<<>>, <<"https", ":">>, <<"HTTPS", ":">>, <<"http", ":">>}
        hosts == {<<"example.com">>, <<"Example.COM">>, <<"u", "@", "example.com">>,
                  <<"example.com", ":", "443">>, <<"Example.COM", ":", "443">>,
                  <<"example.com", ":", "80">>, <<"example.com", ":", "9">>}
        authorities == {<<>>} \cup {<<"/", "/">> \o h : h \in hosts}
        paths == {<<>>, <<"/", "p">>, <<"/", "P">>, <<"/", "p", "/">>,
                  <<"/", "P", "/">>, <<"/", "p", "/", "/">>, <<"p">>,
                  <<"/", "p", ";", "/">>, <<"/", "/", "Example.COM">>}
    IN {s \o a \o p : s \in schemes, a \in authorities, p \in paths}

InitNormalize ==
    /\ stage = "normalize"
    /\ pc = "start"
    /\ bookmark_url \in UrlInputs
    /\ input = bookmark_url
    /\ normalized = <<>>
    /\ deduped = <<>> /\ removed = <<>>
    /\ entries = <<>> /\ result = <<>>
    /\ BalancerIdle /\ ClassifierIdle /\ FetcherIdle /\ DriverIdle /\ ExporterIdle

\* bookmark['url'] = normalize_url(bookmark['url'])
NormalizeUrl ==
    /\ stage = "normalize" /\ Len(normalized) < MaxPasses
    /\ bookmark_url' = normalize_url(bookmark_url)
    /\ normalized' = Append(normalized, bookmark_url')
    /\ pc' = "normalized"
    /\ UNCHANGED <<stage, input, entries, deduped, removed, foldVars, catVars,
                   fetchVars, driverVars, exportVars, result>>

NextNormalize == NormalizeUrl

SpecNormalize == InitNormalize /\ [][NextNormalize]_vars

-----------------------------------------------------------------------------
(* Properties of the normalizer *)

\* C19: normalize_url is idempotent: for every url string u,
\* normalize_url(normalize_url(u)) = normalize_url(u).
C19_NormalizeIdempotent ==
    stage = "normalize" /\ Len(normalized) >= 2 => normalized[2] = normalized[1]

\* "HTTPS://Example.COM:443/P/", "https://example.com/p" and
\* "https://example.com/P"
UrlUpper == <<"HTTPS", ":", "/", "/", "Example.COM", ":", "443", "/", "P", "/">>
UrlLower == <<"https", ":", "/", "/", "example.com", "/", "p">>
UrlLowerHost == <<"https", ":", "/", "/", "example.com", "/", "P">>

\* C20 (as stated): normalize_url("HTTPS://Example.COM:443/P/") =
\* normalize_url("https://example.com/p").
C20_CaseInsensitive ==
    stage = "normalize" /\ normalized # <<>> =>
        /\ input = UrlUpper => normalized[1] = normalize_url(UrlLower)
        /\ input = UrlLower => normalized[1] = normalize_url(UrlUpper)

\* C20 (amended): normalize_url("HTTPS://Example.COM:443/P/") =
\* normalize_url("https://example.com/P") = "https://example.com/P": letter
\* case of scheme and host, a default port and a trailing slash make no
\* difference, and the letter case of the path is kept.
C20_SchemeHostCaseInsensitive ==
    stage = "normalize" /\ normalized # <<>> =>
        /\ input = UrlUpper => normalized[1] = UrlLowerHost
        /\ input = UrlLowerHost => normalized[1] = UrlLowerHost
        /\ input = UrlLower => normalized[1] = UrlLower

\* C20 witness: "HTTPS://Example.COM:443/P/" has been normalized
C20_Witness ==
    /\ stage = "normalize" /\ input = UrlUpper
    /\ normalized # <<>> /\ normalized[1] = UrlLowerHost

-----------------------------------------------------------------------------
(* Deduplicator: normalizer.py deduplicate_entries *)

\* The largest collection given to deduplicate_entries
MaxDedup == 3

\* a < b for Python strings of decimal digits, each a sequence of digits:
\* character by character, a proper prefix being smaller
RECURSIVE StrLess(_, _)
StrLess(a, b) ==
    IF b = <<>> THEN FALSE
    ELSE IF a = <<>> THEN TRUE
    ELSE IF a[1] # b[1] THEN a[1] < b[1]
    ELSE StrLess(Tail(a), Tail(b))

\* x.get('date_added', default)
DateKey(entry, default) == Get(entry, "date_added", default)

\* A date_added that is a Python int n, not a string, is written
\* <<IntMark, n>>
IntMark == -1
IsIntKey(key) == key # <<>> /\ key[1] = IntMark

\* a < b for two keys of one type
KeyLess(a, b) == IF IsIntKey(a) THEN a[2] < b[2] ELSE StrLess(a, b)

\* sorted raises TypeError: it has to compare an int with a str, which it
\* does when keys of both types are in the list
SortRaises(es, default) ==
    \E i, j \in 1..Len(es) :
        IsIntKey(DateKey(es[i], default)) /\ ~IsIntKey(DateKey(es[j], default))

\* sorted(es, key=lambda x: x.get('date_added', default)): a stable sort, an
\* entry going behind the entries whose key is not greater than its own
RECURSIVE SortByDateAdded(_, _)
SortByDateAdded(es, default) ==
    IF es = <<>> THEN <<>>
    ELSE LET front == SortByDateAdded(SubSeq(es, 1, Len(es) - 1), default)
             e == es[Len(es)]
             greater == {i \in 1..Len(front) :
                            KeyLess(DateKey(e, default), DateKey(front[i], default))}
             at == IF greater = {} THEN Len(front) + 1
                   ELSE CHOOSE i \in greater : \A j \in greater : i <= j
         IN SubSeq(front, 1, at - 1) \o <<e>> \o SubSeq(front, at, Len(front))

\* The loop body with every entry kept
DedupStepNoLookup(acc, entry) ==
    [acc EXCEPT !.deduped = Append(@, entry)]

\* The loop body with a duplicate dropped and not recorded
DedupStepDropsDuplicate(acc, entry) ==
    IF Get(entry, "url", <<>>) = <<>>
    THEN [acc EXCEPT !.deduped = Append(@, entry)]
    ELSE IF normalize_url(entry.url) \notin DOMAIN acc.url_map
         THEN [url_map |-> Put(acc.url_map, normalize_url(entry.url), entry),
               deduped |-> Append(acc.deduped, entry),
               removed |-> acc.removed]
         ELSE acc

\* The body of "for entry in sorted_entries", on url_map, deduped, removed
DedupStep(acc, entry) ==
    IF Get(entry, "url", <<>>) = <<>>
    THEN [acc EXCEPT !.deduped = Append(@, entry)]
    ELSE LET normal == normalize_url(entry.url)
         IN IF normal \notin DOMAIN acc.url_map
            THEN [url_map |-> Put(acc.url_map, normal, entry),
                  deduped |-> Append(acc.deduped, entry),
                  removed |-> acc.removed]
            ELSE [acc EXCEPT !.removed = Append(@, <<entry, acc.url_map[normal]>>)]

\* The loop over sorted_entries
RECURSIVE DedupLoop(_, _)
DedupLoop(acc, sorted_entries) ==
    IF sorted_entries = <<>> THEN acc
    ELSE DedupLoop(DedupStep(acc, Head(sorted_entries)), Tail(sorted_entries))

\* deduplicate_entries(entries): deduped and removed
deduplicate_entries(es) ==
    DedupLoop([url_map |-> <<>>, deduped |-> <<>>, removed |-> <<>>],
              SortByDateAdded(es, <<>>))

\* What the loader leaves on an entry, as far as the deduplicator reads it: a
\* url that may be missing, two of the urls differing in case, default port
\* and trailing slash only; and a date_added string that may be missing
DedupStageShapes ==
    LET urls == {<<"https", ":", "/", "/", "example.com", "/", "p">>,
                 <<"HTTPS", ":", "/", "/", "Example.COM", ":", "443", "/", "p", "/">>,
                 <<"https", ":", "/", "/", "example.com", ":", "9", "/", "p">>}
        dates == {<<1, 0, 0>>, <<2, 0, 0>>, <<1, 5, 0>>, <<9, 9>>}
        titled == {[title |-> "T"]} \cup {[title |-> "T", url |-> u] : u \in urls}
    IN titled \cup {Put(e, "date_added", d) : e \in titled, d \in dates}

InitDedup ==
    /\ stage = "dedup"
    /\ pc = "start"
    /\ \E n \in 1..MaxDedup : \E shapes \in [1..n -> DedupStageShapes] :
           entries = WithIds(shapes)
    /\ input = entries
    /\ bookmark_url = <<>> /\ normalized = <<>>
    /\ deduped = <<>> /\ removed = <<>>
    /\ result = <<>>
    /\ BalancerIdle /\ ClassifierIdle /\ FetcherIdle /\ DriverIdle /\ ExporterIdle

\* deduped_entries, removed_entries = deduplicate_entries(entries)
DeduplicateEntries ==
    /\ stage = "dedup" /\ pc = "start"
    /\ IF SortRaises(entries, <<>>)
       THEN /\ pc' = "raised"
            /\ UNCHANGED <<deduped, removed, result>>
       ELSE /\ LET out == deduplicate_entries(entries)
               IN /\ deduped' = out.deduped
                  /\ removed' = out.removed
                  /\ result' = out.deduped
            /\ pc' = "done"
    /\ UNCHANGED <<stage, input, entries, bookmark_url, normalized, foldVars,
                   catVars, fetchVars, driverVars, exportVars>>

NextDedup == DeduplicateEntries

SpecDedup == InitDedup /\ [][NextDedup]_vars

\* Entries whose date_added is a string, an int or missing, as a bookmarks
\* file not written by the loader may hold them
MixedDateShapes ==
    LET dates == {<<9, 9>>, <<1, 0, 0>>, <<IntMark, 99>>, <<IntMark, 100>>}
        titled == {[title |-> "T"],
                   [title |-> "T", url |-> <<"https", ":", "/", "/", "example.com", "/", "p">>]}
    IN titled \cup {Put(e, "date_added", d) : e \in titled, d \in dates}

InitDedupMixed ==
    /\ stage = "dedup"
    /\ pc = "start"
    /\ \E n \in 1..MaxDedup : \E shapes \in [1..n -> MixedDateShapes] :
           entries = WithIds(shapes)
    /\ input = entries
    /\ bookmark_url = <<>> /\ normalized = <<>>
    /\ deduped = <<>> /\ removed = <<>>
    /\ result = <<>>
    /\ BalancerIdle /\ ClassifierIdle /\ FetcherIdle /\ DriverIdle /\ ExporterIdle

SpecDedupMixed == InitDedupMixed /\ [][NextDedup]_vars

-----------------------------------------------------------------------------
(* Properties of the deduplicator *)

DedupDone == stage = "dedup" /\ pc = "done"

\* entry.get('url') is truthy
HasUrl(e) == Get(e, "url", <<>>) # <<>>

\* The input entries whose url normalizes as that of entry e
SameUrlGroup(e) ==
    {i \in 1..Len(input) :
        HasUrl(input[i]) /\ normalize_url(input[i].url) = normalize_url(e.url)}

\* C12: the kept list returned by deduplicate_entries holds no two entries
\* with a url whose normalize_url values are equal, and holds every input
\* entry that has no url.
C12_OneEntryPerNormalizedUrl ==
    DedupDone =>
        /\ \A j, k \in 1..Len(result) :
             j # k /\ HasUrl(result[j]) /\ HasUrl(result[k])
                 => normalize_url(result[j].url) # normalize_url(result[k].url)
        /\ \A i \in 1..Len(input) :
             ~HasUrl(input[i]) => \E k \in 1..Len(result) : result[k] = input[i]

\* C12 witness: two entries whose urls are different strings with one
\* normalized value, and an entry without url, have been deduplicated
C12_Witness ==
    /\ DedupDone
    /\ \E i, j \in 1..Len(input) :
         /\ HasUrl(input[i]) /\ HasUrl(input[j])
         /\ input[i].url # input[j].url
         /\ normalize_url(input[i].url) = normalize_url(input[j].url)
    /\ \E k \in 1..Len(result) : ~HasUrl(result[k])
    /\ Len(result) = 2

\* C13: deduplicate_entries partitions its input: len(kept) + len(removed) =
\* len(input), and every input entry occurs exactly once, in kept or as the
\* first component of a removed pair.
C13_DedupPartitions ==
    DedupDone =>
        /\ Len(deduped) + Len(removed) = Len(input)
        /\ \A i \in 1..Len(input) :
             Cardinality({k \in 1..Len(deduped) : deduped[k] = input[i]})
             + Cardinality({k \in 1..Len(removed) : removed[k][1] = input[i]}) = 1

\* C13 witness: a collection of three with two kept and one removed
C13_Witness ==
    /\ DedupDone
    /\ Len(input) = 3 /\ Len(deduped) = 2 /\ Len(removed) = 1

\* The number a string of decimal digits denotes
RECURSIVE NumValue(_)
NumValue(date) ==
    IF date = <<>> THEN 0
    ELSE 10 * NumValue(SubSeq(date, 1, Len(date) - 1)) + date[Len(date)]

\* C14: among the input entries whose urls normalize to one value, all with
\* a date_added, deduplicate_entries keeps the one with the smallest
\* timestamp, whatever the numbers of digits, and every other entry of the
\* group is in removed, paired with the kept one.
C14_OldestKept ==
    DedupDone =>
        \A k \in 1..Len(deduped) :
            HasUrl(deduped[k])
            /\ (\A i \in SameUrlGroup(deduped[k]) : "date_added" \in DOMAIN input[i])
            => \A i \in SameUrlGroup(deduped[k]) :
                 /\ NumValue(deduped[k].date_added) <= NumValue(input[i].date_added)
                 /\ input[i] # deduped[k] =>
                      \E r \in 1..Len(removed) : removed[r] = <<input[i], deduped[k]>>

-----------------------------------------------------------------------------
(* Properties of the splitting of folders *)

\* The entries of the input in folder f, in input order
FolderGroup(f) == SelectSeq(input, LAMBDA e : FolderKey(e) = f)

\* The entries of group g are, in organized_entries, in the order of g, the
\* k-th of them in the piece ((k-1) div max_folder_size) + 1 of folder f:
\* consecutive slices of max_folder_size entries, the last one possibly
\* shorter, named "f (1)", "f (2)", ...
ShardedInOrder(f, g) ==
    LET mine == SelectSeq(organized, LAMBDA r : \E k \in 1..Len(g) : r.id = g[k].id)
    IN /\ Len(mine) = Len(g)
       /\ \A k \in 1..Len(g) :
            /\ mine[k].id = g[k].id
            /\ mine[k].folder =
                   f \o " (" \o ToString(((k - 1) \div max_folder_size) + 1) \o ")"

\* The folders of the input with more than max_folder_size entries, all of
\* one domain
LargeOneDomainFolders ==
    {f \in {FolderKey(input[i]) : i \in 1..Len(input)} :
        /\ Len(FolderGroup(f)) > max_folder_size
        /\ \A j, k \in 1..Len(FolderGroup(f)) :
             DomainKey(FolderGroup(f)[j]) = DomainKey(FolderGroup(f)[k])}

\* C18 (as stated): a folder group of n > max_folder_size entries that all
\* have the same domain is split into ceil(n / max_folder_size) shards,
\* consecutive slices of the group in original order, the i-th named
\* "{original_name} (i)".
C18_SameDomainSharded ==
    FoldersDone => \A f \in LargeOneDomainFolders : ShardedInOrder(f, FolderGroup(f))

\* C18 (amended): a folder group of n > max_folder_size entries that all have
\* the same domain and the same first tag (or all no tag) is split into
\* ceil(n / max_folder_size) shards, consecutive slices of the group in
\* original order, the i-th named "{original_name} (i)"; entries of one
\* domain with different first tags are split by first tag before that.
C18_SameDomainAndTagSharded ==
    FoldersDone =>
        \A f \in LargeOneDomainFolders :
            (\A j, k \in 1..Len(FolderGroup(f)) :
                PrimaryTag(FolderGroup(f)[j]) = PrimaryTag(FolderGroup(f)[k]))
            => ShardedInOrder(f, FolderGroup(f))

\* C18 witness: three entries of one domain and one tag in folder "X" with
\* max_folder_size 2 have been split into "X (1)" (two entries) and "X (2)"
C18_Witness ==
    /\ FoldersDone
    /\ max_folder_size = 2 /\ Len(input) = 3
    /\ "X" \in LargeOneDomainFolders
    /\ \A k \in 1..3 : PrimaryTag(input[k]) = "t"
    /\ organized[1].folder = "X (1)" /\ organized[2].folder = "X (1)"
    /\ organized[3].folder = "X (2)"

-----------------------------------------------------------------------------
(* Exporter: exporter.py export_to_chrome_format, export_to_chrome_html *)

\* The folder an entry is filed under, read from its parent
ExportFolderKeyByParent(entry) == Get(entry, "parent", "Unsorted")

\* entry.get("folder", "Unsorted")
ExportFolderKey(entry) == Get(entry, "folder", "Unsorted")

\* entry.get("folder", entry.get("parent", "Unsorted"))
HtmlFolderKey(entry) == Get(entry, "folder", Get(entry, "parent", "Unsorted"))

\* html.escape on the names and titles of the model
Escape(text) ==
    CASE text = "R&D" -> "R&amp;D"
      [] text = "R&amp;D" -> "R&amp;amp;D"
      [] OTHER -> text

\* The place of a folder name of the model in the order of Python strings
FolderRank(name) ==
    CASE name = "Dev" -> 1
      [] name = "R&D" -> 2
      [] name = "R&amp;D" -> 3
      [] name = "Unsorted" -> 4
      [] OTHER -> 5

\* sorted(names)
RECURSIVE SortedNames(_)
SortedNames(names) ==
    IF names = {} THEN <<>>
    ELSE LET first == CHOOSE n \in names :
                          \A m \in names : FolderRank(n) <= FolderRank(m)
         IN <<first>> \o SortedNames(names \ {first})

\* s[:n]
Prefix(s, n) == SubSeq(s, 1, IF Len(s) < n THEN Len(s) ELSE n)

\* The bookmark node export_to_chrome_format makes for an item (the guid
\* left out; titles of the model are shorter than 100 characters)
BookmarkNode(item) ==
    LET node == [date_added |-> Get(item, "date_added", <<0>>),
                 date_modified |-> Get(item, "date_added", <<0>>),
                 id |-> Get(item, "id", "uuid"),
                 name |-> Get(item, "title", "No title"),
                 type |-> "url",
                 url |-> Get(item, "url", "")]
    IN IF Get(item, "tags", <<>>) # <<>>
       THEN Put(node, "tags", Prefix(item.tags, 5))
       ELSE node

\* The folder node made when folder_nodes holds count nodes (the guid and
\* the dates of creation left out)
FolderNode(folder_name, folder_items, count) ==
    LET sorted_items == SortByDateAdded(folder_items, <<0>>)
    IN [children |-> [k \in 1..Len(sorted_items) |-> BookmarkNode(sorted_items[k])],
        id |-> ToString(count + 1000),
        name |-> folder_name,
        type |-> "folder"]

\* export_to_chrome_format(entries): the children of roots.bookmark_bar
export_to_chrome_format(es) ==
    LET names == KeysInOrder([i \in 1..Len(es) |-> ExportFolderKey(es[i])])
    IN [k \in 1..Len(names) |->
           FolderNode(names[k],
                      SelectSeq(es, LAMBDA e : ExportFolderKey(e) = names[k]),
                      k - 1)]

\* The digits of str(int(text)): leading zeros dropped
RECURSIVE IntDigits(_)
IntDigits(digits) ==
    IF Len(digits) > 1 /\ Head(digits) = 0 THEN IntDigits(Tail(digits)) ELSE digits

\* ADD_DATE of an item: seconds, a value above 10000000000 taken for
\* microseconds and divided by 1000000 (its last six digits dropped); the
\* time of the export ("now") for an item without date_added
AddDate(item) ==
    IF "date_added" \notin DOMAIN item THEN "now"
    ELSE LET date_int == IntDigits(item.date_added)
             microseconds ==
                 \/ Len(date_int) > 11
                 \/ Len(date_int) = 11 /\ date_int # <<1, 0, 0, 0, 0, 0, 0, 0, 0, 0, 0>>
         IN IF microseconds THEN SubSeq(date_int, 1, Len(date_int) - 6) ELSE date_int

\* The <DT><A ...> line of an item
HtmlBookmarkLine(item) ==
    [tag |-> "A",
     href |-> Escape(Get(item, "url", "")),
     add_date |-> AddDate(item),
     title |-> Escape(Get(item, "title", "No title")),
     tags |-> Prefix(Get(item, "tags", <<>>), 3)]

\* The lines of one folder: its heading, its bookmarks, its closing line
HtmlFolderLines(folder_name, items) ==
    LET sorted_items == SortByDateAdded(items, <<0>>)
    IN <<[tag |-> "H3", text |-> Escape(folder_name)], [tag |-> "DL"]>>
       \o [k \in 1..Len(sorted_items) |-> HtmlBookmarkLine(sorted_items[k])]
       \o <<[tag |-> "/DL"]>>

\* export_to_chrome_html(entries): the lines after the fixed header, the
\* closing line of the document left out
export_to_chrome_html(es) ==
    LET names == SortedNames({HtmlFolderKey(es[i]) : i \in 1..Len(es)})
    IN Flatten([k \in 1..Len(names) |->
           HtmlFolderLines(names[k],
                           SelectSeq(es, LAMBDA e : HtmlFolderKey(e) = names[k]))])

\* What the balancer leaves on an entry, as far as the exporter reads it: a
\* folder (or none, with or without a parent), a date_added that may be
\* missing, tags
ExportStageShapes ==
    LET base == [url |-> "https://a.com/p", tags |-> <<"t">>]
        filed == {Put(base, "folder", f) : f \in {"Dev", "R&D", "R&amp;D"}}
                 \cup {base, Put(base, "parent", "Work")}
    IN filed \cup {Put(e, "date_added", d) : e \in filed, d \in {<<1, 0, 0>>, <<9, 9>>}}

\* The collection of the given shapes, each entry with its id and a title of
\* its own
WithIdsAndTitles(shapes) ==
    [i \in 1..Len(shapes) |->
        Put(Put(shapes[i], "id", EntryId(i)), "title", "T" \o EntryId(i))]

InitExport ==
    /\ stage = "export"
    /\ pc = "start"
    /\ \E n \in 1..MaxEntries : \E shapes \in [1..n -> ExportStageShapes] :
           entries = WithIdsAndTitles(shapes)
    /\ input = entries
    /\ chrome_bookmarks = <<>> /\ html_parts = <<>>
    /\ result = <<>>
    /\ BalancerIdle /\ ClassifierIdle /\ FetcherIdle /\ CleanerIdle /\ DriverIdle

\* exported = export_to_chrome_format(categorized, ...)
ExportToChromeFormat ==
    /\ stage = "export" /\ chrome_bookmarks = <<>>
    /\ chrome_bookmarks' = export_to_chrome_format(entries)
    /\ pc' = "exported"
    /\ UNCHANGED <<stage, input, entries, html_parts, foldVars, catVars,
                   fetchVars, cleanVars, driverVars, result>>

\* html_content = export_to_chrome_html(categorized)
ExportToChromeHtml ==
    /\ stage = "export" /\ html_parts = <<>>
    /\ html_parts' = export_to_chrome_html(entries)
    /\ pc' = "exported"
    /\ UNCHANGED <<stage, input, entries, chrome_bookmarks, foldVars, catVars,
                   fetchVars, cleanVars, driverVars, result>>

NextExport == ExportToChromeFormat \/ ExportToChromeHtml

SpecExport == InitExport /\ [][NextExport]_vars

-----------------------------------------------------------------------------
(* C17 *)

\* What a browser reads back from an escaped text
Unescape(text) ==
    CASE text = "R&amp;D" -> "R&D"
      [] text = "R&amp;amp;D" -> "R&amp;D"
      [] OTHER -> text

\* The places <<k, j>> of the bookmark nodes of the Chrome structure made
\* from entry e
ChromePlaces(e) ==
    {p \in {<<k, j>> : k \in 1..Len(chrome_bookmarks), j \in 1..MaxEntries + 1} :
        /\ p[2] <= Len(chrome_bookmarks[p[1]].children)
        /\ chrome_bookmarks[p[1]].children[p[2]].id = e.id}

\* The lines of the HTML document made from entry e
HtmlPlaces(e) ==
    {p \in 1..Len(html_parts) :
        html_parts[p].tag = "A" /\ html_parts[p].title = Escape(e.title)}

\* The name of the folder a line of the HTML document stands under
HeadingOf(p) ==
    LET h == CHOOSE q \in 1..p :
                 /\ html_parts[q].tag = "H3"
                 /\ \A r \in (q + 1)..p : html_parts[r].tag # "H3"
    IN Unescape(html_parts[h].text)

ChromeExportFaithful ==
    /\ \A i \in 1..Len(entries) :
          /\ Cardinality(ChromePlaces(entries[i])) = 1
          /\ "folder" \in DOMAIN entries[i] =>
                \A p \in ChromePlaces(entries[i]) :
                    chrome_bookmarks[p[1]].name = entries[i].folder
    /\ \A k, l \in 1..Len(chrome_bookmarks) :
          chrome_bookmarks[k].name = chrome_bookmarks[l].name => k = l

HtmlExportFaithful ==
    /\ \A i \in 1..Len(entries) :
          /\ Cardinality(HtmlPlaces(entries[i])) = 1
          /\ "folder" \in DOMAIN entries[i] =>
                \A p \in HtmlPlaces(entries[i]) : HeadingOf(p) = entries[i].folder
    /\ Cardinality({p \in 1..Len(html_parts) : html_parts[p].tag = "A"}) = Len(entries)
    /\ \A p, q \in 1..Len(html_parts) :
          (/\ html_parts[p].tag = "H3" /\ html_parts[q].tag = "H3"
           /\ html_parts[p].text = html_parts[q].text) => p = q

-----------------------------------------------------------------------------
(* The categorize command: cli.py categorize, from the LLM step on.
   progress_file and output_file hold <<>> while the file does not exist and
   <<content>> once it is written. *)

SupportedProviders == {"gemini", "openai", "anthropic"}

\* LLMClient.__init__ raises ValueError
LLMClientRaises(key, provider) ==
    \/ provider = "gemini" /\ key = None
    \/ provider \notin SupportedProviders

\* The provider name or the credential is not one the run can work with
ConfigurationError == api_key = None \/ llm_provider \notin SupportedProviders

\* What the loaders and the fetch step leave on an entry besides the id
DriverStageShapes == {[url |-> "https://a.com/p", title |-> "T", parent |-> "Work"]}

InitDriver ==
    /\ stage = "categorize"
    /\ pc = "idle"
    /\ driver_pc = "start"
    /\ \E n \in 1..MaxEntries : \E shapes \in [1..n -> DriverStageShapes] :
           entries = WithIds(shapes)
    /\ input = entries
    /\ api_key \in {None, "key"}
    /\ llm_provider \in {"gemini", "openai", "bogus"}
    /\ batch_size \in 1..MaxBatchSize
    /\ batches = <<>> /\ batch_idx = 0
    /\ categorized_entries = <<>> /\ history = <<>>
    /\ response = [kind |-> "none"]
    /\ shutdown_requested = FALSE /\ at_shutdown = <<>>
    /\ progress_file = <<>> /\ output_file = <<>> /\ exit_code = "<None>"
    /\ BalancerIdle /\ FetcherIdle /\ CleanerIdle /\ ExporterIdle
    /\ result = <<>>

\* SIGINT or SIGTERM under Python's default handling: KeyboardInterrupt is
\* raised in the command; inside the LLM step the except branch finds no
\* progress file and saves the uncategorized entries, elsewhere the command
\* exits with 130
SignalRaisesKeyboardInterrupt ==
    /\ stage = "categorize" /\ driver_pc \in {"start", "categorize"}
    /\ ~shutdown_requested
    /\ shutdown_requested' = TRUE
    /\ at_shutdown' = categorized_entries
    /\ IF driver_pc = "categorize"
       THEN /\ output_file' = IF progress_file # <<>> THEN progress_file ELSE <<entries>>
            /\ exit_code' = "0"
       ELSE /\ output_file' = output_file
            /\ exit_code' = "130"
    /\ driver_pc' = "exit"
    /\ UNCHANGED <<stage, pc, input, entries, foldVars, catVars, fetchVars,
                   cleanVars, api_key, llm_provider, progress_file, exportVars,
                   result>>

\* signal_handler: SIGINT or SIGTERM arrives while the command runs; the
\* handler sets the flag and the command goes on. at_shutdown records what
\* had been merged when the (first) signal arrived.
Signal ==
    /\ stage = "categorize" /\ driver_pc \in {"start", "categorize"}
    /\ ~shutdown_requested
    /\ shutdown_requested' = TRUE
    /\ at_shutdown' = categorized_entries
    /\ UNCHANGED <<stage, pc, input, entries, foldVars, catVars, fetchVars,
                   cleanVars, driver_pc, api_key, llm_provider, progress_file,
                   output_file, exit_code, exportVars, result>>

\* "if use_llm and not shutdown_requested" is false: basic categorization,
\* saved to the output file
BasicCategorization ==
    /\ stage = "categorize" /\ driver_pc = "start"
    /\ shutdown_requested
    /\ result' = build_folders(entries, 6, MinConfidence, FALSE)
    /\ entries' = Aliased(entries, result')
    /\ output_file' = <<result'>>
    /\ exit_code' = "0"
    /\ driver_pc' = "exit"
    /\ UNCHANGED <<stage, pc, input, foldVars, catVars, fetchVars, cleanVars,
                   api_key, llm_provider, shutdown_requested, at_shutdown,
                   progress_file, exportVars>>

\* "if not api_key": typer.Exit(1), which the outer "except Exception" turns
\* into typer.Exit(1) again
MissingApiKey ==
    /\ stage = "categorize" /\ driver_pc = "start"
    /\ ~shutdown_requested
    /\ api_key = None
    /\ exit_code' = "1"
    /\ driver_pc' = "exit"
    /\ UNCHANGED <<stage, pc, input, entries, foldVars, catVars, fetchVars,
                   cleanVars, api_key, llm_provider, shutdown_requested,
                   at_shutdown, progress_file, output_file, exportVars, result>>

\* LLMClient(...) raises inside the try: "except Exception" loads the
\* progress file if there is one, else takes entries_with_meta; the command
\* then saves the output file and reports success
ClientRaises ==
    /\ stage = "categorize" /\ driver_pc = "start"
    /\ ~shutdown_requested
    /\ api_key # None
    /\ LLMClientRaises(api_key, llm_provider)
    /\ output_file' = IF progress_file # <<>> THEN progress_file ELSE <<entries>>
    /\ exit_code' = "0"
    /\ driver_pc' = "exit"
    /\ UNCHANGED <<stage, pc, input, entries, foldVars, catVars, fetchVars,
                   cleanVars, api_key, llm_provider, shutdown_requested,
                   at_shutdown, progress_file, exportVars, result>>

\* LLMClient(...) returns and asyncio.run(categorize_bookmarks(...)) starts
ClientConstructed ==
    /\ stage = "categorize" /\ driver_pc = "start"
    /\ ~shutdown_requested
    /\ api_key # None
    /\ ~LLMClientRaises(api_key, llm_provider)
    /\ driver_pc' = "categorize"
    /\ pc' = "start"
    /\ UNCHANGED <<stage, input, entries, foldVars, catVars, fetchVars,
                   cleanVars, api_key, llm_provider, shutdown_requested,
                   at_shutdown, progress_file, output_file, exit_code,
                   exportVars, result>>

\* categorize_bookmarks returned: the output file is written, the progress
\* file removed if there is one
SaveCategorized ==
    /\ stage = "categorize" /\ driver_pc = "categorize" /\ pc = "done"
    /\ output_file' = <<result>>
    /\ progress_file' = <<>>
    /\ exit_code' = "0"
    /\ driver_pc' = "exit"
    /\ UNCHANGED <<stage, pc, input, entries, foldVars, catVars, fetchVars,
                   cleanVars, api_key, llm_provider, shutdown_requested,
                   at_shutdown, exportVars, result>>

NextDriver ==
    \/ Signal
    \/ BasicCategorization
    \/ MissingApiKey
    \/ ClientRaises
    \/ ClientConstructed
    \/ driver_pc = "categorize" /\ PrepareBatches
    \/ driver_pc = "categorize" /\ BatchAnswered
    \/ driver_pc = "categorize" /\ BatchRaised
    \/ driver_pc = "categorize" /\ ReturnCategorized
    \/ SaveCategorized

SpecDriver == InitDriver /\ [][NextDriver]_vars

-----------------------------------------------------------------------------
(* C15, C16 *)

C16_ConfigErrorIsFatal ==
    (stage = "categorize" /\ driver_pc = "exit" /\ ConfigurationError
     /\ ~shutdown_requested) =>
        /\ history = <<>>
        /\ output_file = <<>>
        /\ exit_code # "0"

-----------------------------------------------------------------------------
(* Properties of the merge of provider responses *)

\* The ids of the entries of the batches submitted so far
ProcessedIds ==
    UNION {{batches[k][i].id : i \in 1..Len(batches[k])} : k \in 1..batch_idx}

\* C22: a response item whose id is the id of no entry of its batch (the id
\* of an entry of another batch included) gives no output entry: every
\* output entry has the id of an entry of a batch submitted so far.
C22_UnmatchedItemDropped ==
    (stage = "categorize" /\ pc \in {"loop", "done"}) =>
        \A j \in 1..Len(categorized_entries) :
            categorized_entries[j].id \in ProcessedIds

\* The valid items of the last response that name an entry of the
\* collection
MatchedItems ==
    IF response.kind # "list" THEN {}
    ELSE {response.items[i].value : i \in
            {k \in 1..Len(response.items) :
                /\ ValidItem(response.items[k])
                /\ \E e \in 1..Len(entries) :
                      entries[e].id = response.items[k].value["id"]}}

\* Some output entry for the item's id has the given confidence
MergedWithConfidence(item, c) ==
    \E j \in 1..Len(categorized_entries) :
        /\ categorized_entries[j].id = item["id"]
        /\ categorized_entries[j].confidence = c

\* C25: an item without confidence is merged with confidence 0.7, an item
\* with a confidence is merged with that confidence, and every confidence of
\* the output lies in [0.0, 1.0] (tenths: 0..10).
C25_ConfidenceDefaultNotOverride ==
    (stage = "categorize" /\ pc \in {"loop", "done"}) =>
        /\ \A item \in MatchedItems :
              MergedWithConfidence(item, Get(item, "confidence", 7))
        /\ \A j \in 1..Len(categorized_entries) :
              categorized_entries[j].confidence \in 0..10

\* The folder the merge is to give for an item: "Unsorted" for a missing,
\* null or empty folder
ExpectedFolder(item) ==
    IF Get(item, "folder", None) \in {None, ""} THEN "Unsorted" ELSE item["folder"]

\* C26: for every valid response item the merged entry's folder is
\* "Unsorted" when the item's folder is missing, null or empty and the
\* item's folder otherwise, and its tags is the empty list when the item
\* has no tags.
C26_FolderAndTagsDefaults ==
    (stage = "categorize" /\ pc \in {"loop", "done"}) =>
        \A item \in MatchedItems :
            \E j \in 1..Len(categorized_entries) :
                /\ categorized_entries[j].id = item["id"]
                /\ categorized_entries[j].folder = ExpectedFolder(item)
                /\ "tags" \notin DOMAIN item => categorized_entries[j].tags = <<>>

\* C27: an entry of a batch whose provider call raised (the only entries
\* with confidence 0.0) has its parent for folder when the parent is a
\* non-empty string and "Unsorted" when the parent is missing or empty.
C27_FallbackFolderNeverEmpty ==
    (stage = "categorize" /\ pc \in {"loop", "done"}) =>
        \A j \in 1..Len(categorized_entries) :
            categorized_entries[j].confidence = 0 =>
                /\ categorized_entries[j].folder # ""
                /\ categorized_entries[j].folder =
                       IF Get(categorized_entries[j], "parent", "") # ""
                       THEN categorized_entries[j].parent ELSE "Unsorted"

-----------------------------------------------------------------------------
(* Properties of one fetch *)

MetadataKeys == {"fetched_title", "description", "keywords", "content_snippet"}

\* The keys the fetch has written on entry i: those the input entry lacks or
\* holds with another value
WrittenByFetch(i) ==
    {k \in DOMAIN entries[i] :
        k \notin DOMAIN input[i] \/ entries[i][k] # input[i][k]}

\* C24: a fetch that fails writes fetch_error and none of the four metadata
\* fields, a fetch that succeeds writes the four together and no
\* fetch_error; at no time has a fetch written both, or part of the
\* metadata, and a finished fetch of an entry with url has written one of
\* the two.
C24_ErrorOrWholeMetadata ==
    stage = "fetch" =>
        \A i \in 1..Len(entries) :
            /\ WrittenByFetch(i) \in {{}, {"fetch_error"}, MetadataKeys}
            /\ (task[i] \in {"done", "collected"} /\ input[i].url # "")
                   => WrittenByFetch(i) # {}
            /\ task[i] \in {"new", "waiting", "inflight"} => WrittenByFetch(i) = {}

\* C24 witness: of two finished fetches one has written the four metadata
\* fields and the other fetch_error
C24_Witness ==
    /\ stage = "fetch"
    /\ \E i, j \in 1..Len(entries) :
         /\ task[i] = "done" /\ WrittenByFetch(i) = MetadataKeys
         /\ task[j] = "done" /\ WrittenByFetch(j) = {"fetch_error"}

-----------------------------------------------------------------------------
(* Termination of fetch_metadata *)

\* The event loop runs every task that can run, and every request sent
\* returns or raises (a timeout raises): a step that stays possible is taken
SpecFetchLive == InitFetch /\ [][NextFetch]_vars /\ WF_vars(NextFetch)

\* fetch_metadata has returned with the limiter free and everything counted
FetchSettled ==
    /\ FetchDone
    /\ InFlight = {}
    /\ semaphore = [value |-> concurrency_limit, waiters |-> <<>>]
    /\ \A i \in 1..Len(task) : task[i] = "collected"
    /\ progress = Len(input)
    /\ Len(result) = Len(input)

\* C30: fetch_metadata terminates: every fetch task completes, by success or
\* by failure, the limiter is released (nothing in flight, nothing queued,
\* its counter back at concurrency_limit) and the progress count reaches the
\* number of entries.
C30_FetchTerminates == <>FetchSettled

\* C30 witness: fetch_metadata has returned for three entries with url under
\* a limiter of one, so that tasks queued on the limiter, with a failed fetch
\* among them
C30_Witness ==
    /\ FetchSettled
    /\ concurrency_limit = 1
    /\ Len(input) = 3 /\ \A i \in 1..3 : input[i].url # ""
    /\ \E i \in 1..3 : "fetch_error" \in DOMAIN entries[i]
    /\ \E i \in 1..3 : "fetched_title" \in DOMAIN entries[i]

-----------------------------------------------------------------------------
(* C23 *)

\* C23: deduplicate_entries does not raise, whatever the mix of int
\* timestamps, string timestamps and missing date_added, and the entries
\* without date_added come first in the order it processes them: an entry
\* without date_added is never removed in favour of one that has it.
C23_DedupNeverRaises ==
    (stage = "dedup" /\ pc # "start") =>
        /\ pc = "done"
        /\ \A r \in 1..Len(removed) :
              "date_added" \notin DOMAIN removed[r][1]
                  => "date_added" \notin DOMAIN removed[r][2]

-----------------------------------------------------------------------------
(* C28 *)

\* C28: normalize_url takes exactly one trailing "/" off the path (a path
\* ending in n >= 1 slashes ends in n - 1 afterwards) and leaves parameters,
\* query string and fragment as they were; stated for urls with a host.
C28_OneTrailingSlashRemoved ==
    (stage = "normalize" /\ normalized # <<>> /\ urlparse(input).netloc # <<>>) =>
        LET before == urlparse(input)
            after == urlparse(normalized[1])
        IN /\ after.path =
                  IF before.path # <<>> /\ before.path[Len(before.path)] = "/"
                  THEN SubSeq(before.path, 1, Len(before.path) - 1)
                  ELSE before.path
           /\ after.params = before.params
           /\ after.query = before.query
           /\ after.fragment = before.fragment

-----------------------------------------------------------------------------
(* C29 *)

\* The positions of the entry with the given id in the returned list
PlacesInResult(id) == {j \in 1..Len(result) : result[j].id = id}

\* C29: build_folders in LLM mode returns a permutation of its input: every
\* input entry is exactly once in the returned list, and it has the fields
\* it had, with the values it had, but for folder.
C29_BuildFoldersPermutes ==
    FoldersDone =>
        /\ Len(result) = Len(input)
        /\ \A i \in 1..Len(input) :
              /\ Cardinality(PlacesInResult(input[i].id)) = 1
              /\ \A j \in PlacesInResult(input[i].id) :
                    /\ DOMAIN result[j] \ {"folder"} = DOMAIN input[i] \ {"folder"}
                    /\ \A k \in DOMAIN input[i] \ {"folder"} :
                          result[j][k] = input[i][k]

\* C29 witness: three entries of one folder were split into pieces, one of
\* them was demoted to "Unsorted", and the returned list is in another order
\* than the input
C29_Witness ==
    /\ FoldersDone
    /\ Len(input) = 3 /\ \A i \in 1..3 : input[i].folder = "X"
    /\ \E j \in 1..3 : organized[j].folder = "X (2)"
    /\ \E j \in 1..3 : result[j].folder = "Unsorted"
    /\ \E j \in 1..3 : result[j].id # input[j].id

-----------------------------------------------------------------------------
(* Loader: loader.py flatten_bookmarks *)

\* The most nodes below the roots of a bookmarks structure
MaxNodes == 3

\* str(uuid.uuid4()): an id made up for a node that has none
Uuid == "uuid4"

\* node.get("type", "folder")
NodeType(node) == Get(node, "type", "folder")

\* The entry process_node makes for a url node
UrlEntry(node, parent_name, parent_id) ==
    [id |-> Get(node, "id", Uuid),
     url |-> Get(node, "url", None),
     title |-> Get(node, "name", ""),
     date_added |-> Get(node, "date_added", ""),
     parent |-> parent_name,
     original_parent_id |-> parent_id,
     meta |-> <<>>]

\* process_node with the folder branch passing on the names it was given
\* instead of the folder's own
RECURSIVE process_node_outer_names(_, _, _)
process_node_outer_names(node, parent_name, parent_id) ==
    IF NodeType(node) = "folder"
    THEN Flatten([c \in 1..Len(Get(node, "children", <<>>)) |->
             process_node_outer_names(node.children[c], parent_name, parent_id)])
    ELSE IF NodeType(node) = "url"
    THEN <<UrlEntry(node, parent_name, parent_id)>>
    ELSE <<>>

\* process_node(node, parent_name, parent_id): the entries it appends to
\* flattened
RECURSIVE process_node(_, _, _)
process_node(node, parent_name, parent_id) ==
    IF NodeType(node) = "folder"
    THEN Flatten([c \in 1..Len(Get(node, "children", <<>>)) |->
             process_node(node.children[c],
                          Get(node, "name", ""), Get(node, "id", Uuid))])
    ELSE IF NodeType(node) = "url"
    THEN <<UrlEntry(node, parent_name, parent_id)>>
    ELSE <<>>

\* The root keys, in the order flatten_bookmarks visits them
RootKeys == <<"bookmark_bar", "other", "synced">>

\* root_key.replace("_", " ").title()
RootTitle(root_key) ==
    CASE root_key = "bookmark_bar" -> "Bookmark Bar"
      [] root_key = "other" -> "Other"
      [] OTHER -> "Synced"

\* flatten_bookmarks(bookmarks)
flatten_bookmarks(bookmarks) ==
    Flatten([r \in 1..Len(RootKeys) |->
        IF RootKeys[r] \in DOMAIN Get(bookmarks, "roots", <<>>)
        THEN process_node(bookmarks.roots[RootKeys[r]], RootTitle(RootKeys[r]), "")
        ELSE <<>>])

\* A bookmarks structure is drawn as a table of n nodes: node k is a folder,
\* a node without type or a url node, and hangs below place par[k], a root
\* (places 1..3) or an earlier node j that is no url node (place 3 + j).
\* NodeOf builds the nested node of the export for node k of the table.
RECURSIVE NodeOf(_, _, _)
NodeOf(k, kinds, par) ==
    LET label == ToString(k)
        below == SelectSeq([j \in 1..Len(kinds) |-> j], LAMBDA j : par[j] = 3 + k)
        children == [c \in 1..Len(below) |-> NodeOf(below[c], kinds, par)]
    IN CASE kinds[k] = "url" ->
              [type |-> "url", id |-> label, name |-> "N" \o label,
               url |-> "https://a.com/" \o label, date_added |-> "13"]
         [] kinds[k] = "folder" ->
              [type |-> "folder", id |-> label, name |-> "N" \o label,
               children |-> children]
         [] OTHER -> [id |-> label, name |-> "N" \o label, children |-> children]

\* The root node at place r: as Chrome writes it, or bare (children only, as
\* in test_flatten_bookmarks)
RootOf(r, kinds, par, bare) ==
    LET below == SelectSeq([j \in 1..Len(kinds) |-> j], LAMBDA j : par[j] = r)
        children == [c \in 1..Len(below) |-> NodeOf(below[c], kinds, par)]
    IN IF bare THEN [children |-> children]
       ELSE [type |-> "folder", id |-> "r" \o ToString(r),
             name |-> "Root " \o ToString(r), children |-> children]

\* The structure of a table; the root "synced" is there only when a node
\* hangs below it
StructureOf(kinds, par, bare) ==
    LET present == IF \E j \in 1..Len(kinds) : par[j] = 3
                   THEN {"bookmark_bar", "other", "synced"}
                   ELSE {"bookmark_bar", "other"}
        place == [key \in present |->
                     CHOOSE r \in 1..3 : RootKeys[r] = key]
    IN [roots |-> [key \in present |-> RootOf(place[key], kinds, par, bare)],
        version |-> "1"]

\* A table is well formed: node k hangs below a root or an earlier node that
\* is no url node
WellFormedTable(kinds, par) ==
    \A k \in 1..Len(kinds) :
        /\ par[k] < 3 + k
        /\ par[k] > 3 => kinds[par[k] - 3] # "url"

InitLoad ==
    /\ stage = "load"
    /\ pc = "start"
    /\ \E n \in 1..MaxNodes :
          \E kinds \in [1..n -> {"folder", "untyped", "url"}] :
             \E par \in [1..n -> 1..(n + 2)] :
                \E bare \in BOOLEAN :
                   /\ WellFormedTable(kinds, par)
                   /\ input = StructureOf(kinds, par, bare)
    /\ entries = <<>>
    /\ result = <<>>
    /\ BalancerIdle /\ ClassifierIdle /\ FetcherIdle /\ CleanerIdle
    /\ DriverIdle /\ ExporterIdle

\* flat_list = flatten_bookmarks(bookmarks)
FlattenBookmarks ==
    /\ stage = "load" /\ pc = "start"
    /\ result' = flatten_bookmarks(input)
    /\ entries' = result'
    /\ pc' = "done"
    /\ UNCHANGED <<stage, input, foldVars, catVars, fetchVars, cleanVars,
                   driverVars, exportVars>>

NextLoad == FlattenBookmarks

SpecLoad == InitLoad /\ [][NextLoad]_vars

-----------------------------------------------------------------------------
(* C21 *)

\* The url nodes at any depth below a folder node, each with the folder node
\* that directly contains it
RECURSIVE UrlNodesBelow(_)
UrlNodesBelow(folder) ==
    LET children == Get(folder, "children", <<>>)
        here == {c \in 1..Len(children) : NodeType(children[c]) = "url"}
        deeper == {c \in 1..Len(children) : NodeType(children[c]) = "folder"}
    IN {[node |-> children[c], parent |-> folder] : c \in here}
       \cup UNION {UrlNodesBelow(children[c]) : c \in deeper}

\* The url nodes reachable from the roots bookmark_bar, other and synced
ReachableUrlNodes ==
    UNION {UrlNodesBelow(input.roots[key]) :
              key \in DOMAIN input.roots \cap {"bookmark_bar", "other", "synced"}}

\* C21: flatten_bookmarks returns exactly one entry for each url node
\* reachable from the three roots, at any depth, and none for a folder node;
\* the entry has the url and id of the node, and for parent and
\* original_parent_id the name and the id of the folder node that directly
\* contains it ("" for a folder node without name).
C21_FlattenOneEntryPerUrlNode ==
    (stage = "load" /\ pc = "done") =>
        /\ Len(result) = Cardinality(ReachableUrlNodes)
        /\ \A u \in ReachableUrlNodes :
              /\ Cardinality({j \in 1..Len(result) : result[j].id = u.node.id}) = 1
              /\ \A j \in 1..Len(result) :
                    result[j].id = u.node.id =>
                        /\ result[j].url = u.node.url
                        /\ result[j].parent = Get(u.parent, "name", "")
                        /\ "id" \in DOMAIN u.parent =>
                              result[j].original_parent_id = u.parent.id

\* C21 witness: of three nodes, a folder in the first root holds a url node,
\* a second url node lies directly in the second root, and both are entries
\* with their own folder for parent
C21_Witness ==
    /\ stage = "load" /\ pc = "done"
    /\ Len(result) = 2
    /\ \E j \in 1..2 : result[j].parent = "N1" /\ result[j].original_parent_id = "1"
    /\ \E j \in 1..2 : result[j].parent = "Root 2" /\ result[j].original_parent_id = "r2"

====
